---- MODULE Spec2Model ----
(***************************************************************************)
(* BriefKit: the interview session of the web client                       *)
(* (components/InterviewClient.tsx), the interview loop of the CLI         *)
(* (cli/index.js) and the completion gateway (lib/openai.js,               *)
(* lib/prd.js extractJson).                                                *)
(*                                                                         *)
(* Text is a sequence of one-character strings, so that trim() and         *)
(* toLowerCase() are computed and not assumed.  A request that has been    *)
(* issued and not yet answered is a record of the set inflight; the        *)
(* answer of the server (or of the model, for the CLI) is a                *)
(* nondeterministic choice made by the response action.                    *)
(***************************************************************************)
EXTENDS Naturals, Sequences, FiniteSets, TLC

\* ---------------------------------------------------------------- bounds
\* Requests one run may issue (interview steps, previews, generations).
MaxReqs == 5
\* Interview turns one session may hold.
MaxTurns == 2
\* Length of the texts a completion call may return.
MaxItems == 2     \* lib/prd.js: the longest list given to a renderer

MaxTextLen == 3

\* ------------------------------------------------------------------ text
IsSpace(c) == c = " "

RECURSIVE TrimStart(_)
TrimStart(s) ==
  IF s # <<>> /\ IsSpace(Head(s)) THEN TrimStart(Tail(s)) ELSE s

RECURSIVE TrimEnd(_)
TrimEnd(s) ==
  IF s # <<>> /\ IsSpace(s[Len(s)]) THEN TrimEnd(SubSeq(s, 1, Len(s) - 1)) ELSE s

\* String.prototype.trim
Trim(s) == TrimEnd(TrimStart(s))

LowerChar(c) ==
  CASE c = "F" -> "f" [] c = "I" -> "i" [] c = "N" -> "n" [] c = "S" -> "s"
    [] c = "H" -> "h" [] c = "R" -> "r" [] c = "E" -> "e" [] c = "T" -> "t"
    [] c = "A" -> "a" [] c = "B" -> "b" [] c = "M" -> "m"
    [] OTHER -> c

\* String.prototype.toLowerCase
ToLower(s) == [i \in 1..Len(s) |-> LowerChar(s[i])]

\* The values JavaScript's null takes in the fields below.
NoQuestion == "<null>"
NoSummary == <<"<null>">>
NoResult == "<null>"
NoError == "<null>"

\* Array.isArray(summary)
IsArray(s) == s # NoSummary

\* ------------------------------------------------------------ input sets
\* What the user may type as a brief, an answer, a feedback message.
BriefInputs == {<<>>, <<" ">>, <<" ", "b">>}
Finish == <<"/", "f", "i", "n", "i", "s", "h">>
Restart == <<"/", "r", "e", "s", "t", "a", "r", "t">>
\* the answer draft of the web client
AnswerDrafts == {<<>>, <<" ">>, <<" ", "a", " ">>}
\* the answer line of the CLI
AnswerInputs ==
  {<<>>, <<" ">>, <<"a", " ">>, <<" ">> \o Finish,
   <<"/", "F", "i", "n", "i", "s", "h">>, <<"/", "R", "E", "S", "T", "A", "R", "T", " ">>}
MessageInputs == {<<>>, <<" ">>, <<"m">>, <<" ", "n">>}
NoAnswer == <<"(", "n", "o", " ", "a", "n", "s", "w", "e", "r", ")">>

\* What the interview-step endpoint may answer (app/api/interview/route.ts
\* normalises the model's object to message: string, done: boolean,
\* summary: array or null).
Messages == {"", "Q1", "Q2"}
Summaries == {NoSummary, <<"s1">>}
StepResults ==
  [message : Messages, done : BOOLEAN, summary : Summaries]

\* What a preview or a final synthesis may answer: the feature list and the
\* story list (the model is free to rename, reorder and renumber them).
PreviewResults ==
  { [features |-> <<>>, userStories |-> <<>>],
    [features |-> <<[name |-> "Auth", userStoryIds |-> <<"US-001">>]>>,
     userStories |-> <<[id |-> "US-001", title |-> "Login"]>>],
    [features |-> <<[name |-> "", userStoryIds |-> <<"US-002">>],
                    [name |-> "Auth", userStoryIds |-> <<"US-001">>]>>,
     userStories |-> <<[id |-> "US-002", title |-> "Signup"],
                       [id |-> "US-001", title |-> "Sign in"]>>] }
GenerateResults == {"prd"}

\* ------------------------------------------------------------ the state
VARIABLES
  driver,            \* "web" (InterviewClient), "cli" (cli/index.js), "gateway",
                     \* "endpoint" (app/api), "prd" (lib/prd.js)
  pc,                \* the CLI's position in main/runInterview
  brief,
  interviewStarted,
  currentQuestion,   \* the pending question (CLI: question)
  interviewHistory,  \* CLI: history
  interviewSummary,  \* CLI: summary
  interviewDone,     \* CLI: done
  previewFeatures,
  previewStories,
  featureMessages,   \* entries [key, msgs] in Object.entries order
  storyMessages,
  loadingInterview,
  loadingPreview,
  generating,
  result,
  error,
  step,              \* CLI: the step whose question is being asked
  skipPreview,       \* CLI: --skip-preview
  out,               \* CLI: the machine-readable lines written
  exitCode,          \* CLI: process.exitCode
  rlClosed,          \* CLI: whether rl.close() has run
  files,             \* CLI: the output files written
  inflight,          \* requests issued and not yet answered
  nextId,            \* the id the next request gets
  staleIds,          \* history: pending requests issued before the last Restart
  overtakenIds,      \* history: pending preview requests issued before one
                     \* whose response has already set the preview
  apiKey,            \* gateway: whether process.env.OPENAI_API_KEY is set
  gwPc,              \* gateway: the position in generateJsonResponse
  gwCalls,           \* gateway: the completion calls made by this invocation
  gwResponses,       \* gateway: what each call came back with
  gwReturn,          \* gateway: what the invocation returned or threw
  epPc,              \* endpoints: the position in the POST handler
  epRoute,           \* endpoints: the route of the request being handled
  epRequest,         \* endpoints: the request being handled
  epCallsLeft,       \* endpoints: awaited calls the handler has still to make
  epResponse,        \* endpoints: the response the handler returned
  epServed,          \* endpoints: requests received so far
  fnPc,              \* lib/prd.js: "ready" before the call, "returned" after
  fnName,            \* lib/prd.js: the function called
  fnArgs,            \* lib/prd.js: its arguments
  fnResult,          \* lib/prd.js: what it returned
  lastOp             \* the operation that produced this state

sessionVars ==
  <<brief, interviewStarted, currentQuestion, interviewHistory, interviewSummary,
    interviewDone, previewFeatures, previewStories, featureMessages, storyMessages>>
uiVars == <<loadingInterview, loadingPreview, generating, result, error>>
cliVars == <<pc, step, skipPreview, out, exitCode, rlClosed, files>>
netVars == <<inflight, nextId>>
histVars == <<staleIds, overtakenIds>>
gwVars == <<apiKey, gwPc, gwCalls, gwResponses, gwReturn>>
srvVars == <<epPc, epRoute, epRequest, epCallsLeft, epResponse, epServed>>
driverVars == <<driver, sessionVars, uiVars, cliVars, netVars, histVars>>
fnVars == <<fnPc, fnName, fnArgs, fnResult>>
vars ==
  <<driver, sessionVars, uiVars, cliVars, netVars, histVars, gwVars, srvVars, fnVars,
    lastOp>>

\* the endpoint handlers before their first request
NoRoute == "none"
\* a request: whether its body can be read (request.json(), request.formData())
\* and whether it carries the required field (a non-empty brief, an audio file)
Requests == [readable : BOOLEAN, field : BOOLEAN]
NoRequest == [readable |-> TRUE, field |-> TRUE]
NoResponse == [status |-> 0, error |-> ""]

\* no function of lib/prd.js is being called
NoCall == "none"
FnIdle ==
  /\ fnPc = "idle"
  /\ fnName = NoCall
  /\ fnArgs = <<>>
  /\ fnResult = <<>>

SrvIdle ==
  /\ epPc = "idle"
  /\ epRoute = NoRoute
  /\ epRequest = NoRequest
  /\ epCallsLeft = 0
  /\ epResponse = NoResponse
  /\ epServed = 0

\* ------------------------------------------------------------- feedback
RECURSIVE Flatten(_)
Flatten(ss) == IF ss = <<>> THEN <<>> ELSE Head(ss) \o Flatten(Tail(ss))

RECURSIVE SelectTrimmed(_)
\* messages.forEach: trim, keep the non-empty ones
SelectTrimmed(msgs) ==
  IF msgs = <<>> THEN <<>>
  ELSE (IF Trim(Head(msgs)) # <<>> THEN <<Trim(Head(msgs))>> ELSE <<>>)
       \o SelectTrimmed(Tail(msgs))

\* stories.reduce((acc, story) => { acc[story.id] = story; ... }): the last
\* story carrying an id is the one looked up.
StoryIds(stories) == {stories[i].id : i \in 1..Len(stories)}
StoryLookup(stories, id) ==
  LET last == CHOOSE i \in 1..Len(stories) :
                /\ stories[i].id = id
                /\ \A j \in 1..Len(stories) : stories[j].id = id => j <= i
  IN stories[last]

FeatureLabel(features, idx) ==
  IF idx + 1 <= Len(features) /\ features[idx + 1].name # ""
    THEN <<"Feature \"", features[idx + 1].name, "\"">>
    ELSE <<"Feature ", ToString(idx + 1)>>

StoryLabel(stories, storyId) ==
  IF storyId \in StoryIds(stories)
    THEN <<"Story ", StoryLookup(stories, storyId).id, ": ",
           StoryLookup(stories, storyId).title>>
    ELSE <<"Story ", storyId>>

EntryLines(label, msgs) ==
  LET kept == SelectTrimmed(msgs)
  IN [i \in 1..Len(kept) |-> [label |-> label, msg |-> kept[i]]]

\* Variant of buildFeedback: the labels never look at the preview.
buildFeedbackByPosition(fm, sm, features, stories) ==
  Flatten([i \in 1..Len(fm) |->
             EntryLines(FeatureLabel(<<>>, fm[i].key), fm[i].msgs)])
  \o
  Flatten([i \in 1..Len(sm) |->
             EntryLines(StoryLabel(<<>>, sm[i].key), sm[i].msgs)])

buildFeedback(fm, sm, features, stories) ==
  Flatten([i \in 1..Len(fm) |->
             EntryLines(FeatureLabel(features, fm[i].key), fm[i].msgs)])
  \o
  Flatten([i \in 1..Len(sm) |->
             EntryLines(StoryLabel(stories, sm[i].key), sm[i].msgs)])

MapKeys(map) == {map[i].key : i \in 1..Len(map)}
MapGet(map, key) ==
  IF key \in MapKeys(map)
    THEN (map[CHOOSE i \in 1..Len(map) : map[i].key = key]).msgs
    ELSE <<>>

\* Variant of PutFeatureMessage: the map lists its keys in insertion order, as a
\* Map would, not in the ascending order of an object's integer keys.
PutFeatureMessageInsertionOrder(map, index, message) ==
  IF index \in MapKeys(map)
    THEN [i \in 1..Len(map) |->
            IF map[i].key = index
              THEN [key |-> index, msgs |-> Append(map[i].msgs, message)]
              ELSE map[i]]
    ELSE Append(map, [key |-> index, msgs |-> <<message>>])

\* {...featureMessages, [index]: [...(featureMessages[index] || []), message]}:
\* an object's integer keys are enumerated in ascending order.
PutFeatureMessage(map, index, message) ==
  IF index \in MapKeys(map)
    THEN [i \in 1..Len(map) |->
            IF map[i].key = index
              THEN [key |-> index, msgs |-> Append(map[i].msgs, message)]
              ELSE map[i]]
    ELSE LET before == SelectSeq(map, LAMBDA e : e.key < index)
             after == SelectSeq(map, LAMBDA e : e.key > index)
         IN before \o <<[key |-> index, msgs |-> <<message>>]>> \o after

\* {...storyMessages, [storyId]: [...]}: string keys keep insertion order.
PutStoryMessage(map, storyId, message) ==
  IF storyId \in MapKeys(map)
    THEN [i \in 1..Len(map) |->
            IF map[i].key = storyId
              THEN [key |-> storyId, msgs |-> Append(map[i].msgs, message)]
              ELSE map[i]]
    ELSE Append(map, [key |-> storyId, msgs |-> <<message>>])

MessageCount(map) == Len(Flatten([i \in 1..Len(map) |-> map[i].msgs]))

\* generate/route.ts formatFeedback: the trimmed, non-empty items. An item is
\* "<label>: <message>", so trimming it trims the end of the message.
formatFeedback(feedback) ==
  [i \in 1..Len(feedback) |->
     [label |-> feedback[i].label, msg |-> TrimEnd(feedback[i].msg)]]

\* generate/route.ts buildClarifyingAnswers (cli: buildClarifyingAnswersWithFeedback):
\* the blocks of the text, an absent block being the empty sequence.
buildClarifyingAnswers(b, interview, summary, feedback) ==
  [brief |-> b,
   lines |-> [i \in 1..Len(interview) |->
               [n |-> i, question |-> interview[i].question,
                answer |-> interview[i].answer]],
   summaryBlock |-> IF IsArray(summary) /\ Len(summary) > 0 THEN summary ELSE <<>>,
   feedbackBlock |-> formatFeedback(feedback)]

\* ------------------------------------------------------------- requests
Request(id, kind, origin, b, h, s, f) ==
  [id |-> id, kind |-> kind, origin |-> origin, brief |-> b, history |-> h,
   summary |-> s, feedback |-> f]

Pending(kind) == {r \in inflight : r.kind = kind}
CanIssue(n) == nextId + n - 1 <= MaxReqs

\* What a request may come back with: a failure (fetch rejects, or the
\* endpoint answers 4xx/5xx and response.ok is false) or the endpoint's data.
InterviewOutcomes ==
  {[ok |-> FALSE, message |-> "", done |-> FALSE, summary |-> NoSummary]}
  \cup [ok : {TRUE}, message : Messages, done : BOOLEAN, summary : Summaries]
PreviewOutcomes ==
  {[ok |-> FALSE, features |-> <<>>, userStories |-> <<>>]}
  \cup {[ok |-> TRUE, features |-> p.features, userStories |-> p.userStories] :
          p \in PreviewResults}
GenerateOutcomes ==
  {[ok |-> FALSE, data |-> NoResult]} \cup [ok : {TRUE}, data : GenerateResults]

\* ------------------------------------------------- web: InterviewClient
\* The fields the two response handlers write.
View ==
  [currentQuestion |-> currentQuestion, interviewDone |-> interviewDone,
   interviewSummary |-> interviewSummary, previewFeatures |-> previewFeatures,
   previewStories |-> previewStories, loadingInterview |-> loadingInterview,
   loadingPreview |-> loadingPreview, error |-> error]

\* Variant of AfterInterviewResponse: a successful response also clears the
\* error, so the two handlers no longer write the error independently.
AfterInterviewResponseClearingError(v, o) ==
  IF o.ok
    THEN [v EXCEPT !.currentQuestion = IF o.message # "" THEN o.message ELSE NoQuestion,
                   !.interviewDone = o.done,
                   !.interviewSummary = IF IsArray(o.summary) THEN o.summary ELSE NoSummary,
                   !.error = NoError,
                   !.loadingInterview = FALSE]
    ELSE [v EXCEPT !.error = "Interview request failed.",
                   !.loadingInterview = FALSE]

\* Variant of AfterPreviewResponse: a failed preview is swallowed silently.
AfterPreviewResponseSilent(v, o) ==
  IF o.ok
    THEN [v EXCEPT !.previewFeatures = o.features,
                   !.previewStories = o.userStories,
                   !.loadingPreview = FALSE]
    ELSE [v EXCEPT !.loadingPreview = FALSE]

\* requestNextQuestion, from the response on: try / catch / finally
AfterInterviewResponse(v, o) ==
  IF o.ok
    THEN [v EXCEPT !.currentQuestion = IF o.message # "" THEN o.message ELSE NoQuestion,
                   !.interviewDone = o.done,
                   !.interviewSummary = IF IsArray(o.summary) THEN o.summary ELSE NoSummary,
                   !.loadingInterview = FALSE]
    ELSE [v EXCEPT !.error = "Interview request failed.",
                   !.loadingInterview = FALSE]

\* refreshPreview, from the response on: try / catch / finally
AfterPreviewResponse(v, o) ==
  IF o.ok
    THEN [v EXCEPT !.previewFeatures = o.features,
                   !.previewStories = o.userStories,
                   !.loadingPreview = FALSE]
    ELSE [v EXCEPT !.error = "Preview failed.",
                   !.loadingPreview = FALSE]

SetView(v) ==
  /\ currentQuestion' = v.currentQuestion
  /\ interviewDone' = v.interviewDone
  /\ interviewSummary' = v.interviewSummary
  /\ previewFeatures' = v.previewFeatures
  /\ previewStories' = v.previewStories
  /\ loadingInterview' = v.loadingInterview
  /\ loadingPreview' = v.loadingPreview
  /\ error' = v.error

\* <textarea value={brief} onChange=...>, shown while the interview has not started
WebSetBrief(b) ==
  /\ driver = "web"
  /\ ~interviewStarted /\ ~interviewDone
  /\ b # brief
  /\ brief' = b
  /\ lastOp' = "setBrief"
  /\ UNCHANGED <<gwVars, srvVars, fnVars, histVars, driver, interviewStarted, currentQuestion, interviewHistory,
                 interviewSummary, interviewDone, previewFeatures, previewStories,
                 featureMessages, storyMessages, uiVars, cliVars, netVars>>

\* Variant of handleStartInterview: the emptiness test is made on the brief as
\* typed, not on the trimmed brief.
handleStartInterviewUntrimmed ==
  LET nextBrief == Trim(brief)
  IN IF brief = <<>>
       THEN /\ error' = "Add a short brief to begin."
            /\ lastOp' = "startRejected"
            /\ UNCHANGED <<interviewStarted, interviewHistory, interviewSummary,
                           interviewDone, featureMessages, storyMessages, result,
                           loadingInterview, netVars>>
       ELSE /\ CanIssue(1)
            /\ error' = NoError
            /\ result' = NoResult
            /\ interviewStarted' = TRUE
            /\ interviewHistory' = <<>>
            /\ interviewSummary' = NoSummary
            /\ interviewDone' = FALSE
            /\ featureMessages' = <<>>
            /\ storyMessages' = <<>>
            /\ loadingInterview' = TRUE
            /\ inflight' = inflight \cup
                 {Request(nextId, "interview", "start", nextBrief, <<>>,
                          NoSummary, <<>>)}
            /\ nextId' = nextId + 1
            /\ lastOp' = "start"

\* handleStartInterview with requestNextQuestion([], nextBrief) up to its fetch
handleStartInterview ==
  LET nextBrief == Trim(brief)
  IN IF nextBrief = <<>>
       THEN /\ error' = "Add a short brief to begin."
            /\ lastOp' = "startRejected"
            /\ UNCHANGED <<interviewStarted, interviewHistory, interviewSummary,
                           interviewDone, featureMessages, storyMessages, result,
                           loadingInterview, netVars>>
       ELSE /\ CanIssue(1)
            /\ error' = NoError
            /\ result' = NoResult
            /\ interviewStarted' = TRUE
            /\ interviewHistory' = <<>>
            /\ interviewSummary' = NoSummary
            /\ interviewDone' = FALSE
            /\ featureMessages' = <<>>
            /\ storyMessages' = <<>>
            /\ loadingInterview' = TRUE
            /\ inflight' = inflight \cup
                 {Request(nextId, "interview", "start", Trim(nextBrief), <<>>,
                          NoSummary, <<>>)}
            /\ nextId' = nextId + 1
            /\ lastOp' = "start"

WebStart ==
  /\ driver = "web"
  /\ ~interviewDone /\ ~interviewStarted /\ ~loadingInterview
  /\ handleStartInterview
  /\ UNCHANGED <<gwVars, srvVars, fnVars, histVars, driver, brief, currentQuestion, previewFeatures, previewStories,
                 loadingPreview, generating, cliVars>>

\* Variant of handleSendAnswer: the turn records the answer as typed.
handleSendAnswerUntrimmed(answerDraft) ==
  LET nextAnswer == Trim(answerDraft)
      nextHistory == Append(interviewHistory,
                            [question |-> currentQuestion, answer |-> answerDraft])
      feedback == buildFeedback(featureMessages, storyMessages,
                                previewFeatures, previewStories)
  IN IF currentQuestion = NoQuestion
       THEN /\ lastOp' = "sendAnswerNoQuestion"
            /\ UNCHANGED <<error, interviewHistory, loadingPreview,
                           loadingInterview, netVars>>
     ELSE IF nextAnswer = <<>>
       THEN /\ error' = "Add a response before sending."
            /\ lastOp' = "sendAnswerRejected"
            /\ UNCHANGED <<interviewHistory, loadingPreview, loadingInterview,
                           netVars>>
       ELSE /\ CanIssue(2)
            /\ Len(interviewHistory) < MaxTurns
            /\ error' = NoError
            /\ interviewHistory' = nextHistory
            /\ loadingPreview' = TRUE
            /\ loadingInterview' = TRUE
            /\ inflight' = inflight \cup
                 {Request(nextId, "preview", "answer", Trim(brief), nextHistory,
                          NoSummary, feedback),
                  Request(nextId + 1, "interview", "answer", Trim(brief),
                          nextHistory, NoSummary, <<>>)}
            /\ nextId' = nextId + 2
            /\ lastOp' = "sendAnswer"

\* handleSendAnswer with refreshPreview(nextHistory) and
\* requestNextQuestion(nextHistory) up to their fetches
handleSendAnswer(answerDraft) ==
  LET nextAnswer == Trim(answerDraft)
      nextHistory == Append(interviewHistory,
                            [question |-> currentQuestion, answer |-> nextAnswer])
      feedback == buildFeedback(featureMessages, storyMessages,
                                previewFeatures, previewStories)
  IN IF currentQuestion = NoQuestion
       THEN /\ lastOp' = "sendAnswerNoQuestion"
            /\ UNCHANGED <<error, interviewHistory, loadingPreview,
                           loadingInterview, netVars>>
     ELSE IF nextAnswer = <<>>
       THEN /\ error' = "Add a response before sending."
            /\ lastOp' = "sendAnswerRejected"
            /\ UNCHANGED <<interviewHistory, loadingPreview, loadingInterview,
                           netVars>>
       ELSE /\ CanIssue(2)
            /\ Len(interviewHistory) < MaxTurns
            /\ error' = NoError
            /\ interviewHistory' = nextHistory
            /\ loadingPreview' = TRUE
            /\ loadingInterview' = TRUE
            /\ inflight' = inflight \cup
                 {Request(nextId, "preview", "answer", Trim(brief), nextHistory,
                          NoSummary, feedback),
                  Request(nextId + 1, "interview", "answer", Trim(brief),
                          nextHistory, NoSummary, <<>>)}
            /\ nextId' = nextId + 2
            /\ lastOp' = "sendAnswer"

\* Variant of WebSendAnswer: the answer form stays on screen once the
\* interview is done.
WebSendAnswerWhenDone(answerDraft) ==
  /\ driver = "web"
  /\ interviewStarted /\ ~loadingInterview
  /\ handleSendAnswer(answerDraft)
  /\ UNCHANGED <<gwVars, srvVars, fnVars, histVars, driver, brief, interviewStarted, currentQuestion, interviewSummary,
                 interviewDone, previewFeatures, previewStories, featureMessages,
                 storyMessages, generating, result, cliVars>>

\* the Send Answer button: disabled={loadingInterview}
WebSendAnswer(answerDraft) ==
  /\ driver = "web"
  /\ ~interviewDone /\ interviewStarted /\ ~loadingInterview
  /\ handleSendAnswer(answerDraft)
  /\ UNCHANGED <<gwVars, srvVars, fnVars, histVars, driver, brief, interviewStarted, currentQuestion, interviewSummary,
                 interviewDone, previewFeatures, previewStories, featureMessages,
                 storyMessages, generating, result, cliVars>>

\* the Finish Interview button: disabled={loadingInterview}
handleStopInterview ==
  /\ interviewDone' = TRUE
  /\ currentQuestion' = NoQuestion
  /\ error' = NoError
  /\ lastOp' = "finish"

\* Variant of WebStop: the Finish Interview button is not disabled while an
\* interview step is loading.
WebStopWhileLoading ==
  /\ driver = "web"
  /\ ~interviewDone /\ interviewStarted
  /\ handleStopInterview
  /\ UNCHANGED <<gwVars, srvVars, fnVars, histVars, driver, brief, interviewStarted, interviewHistory, interviewSummary,
                 previewFeatures, previewStories, featureMessages, storyMessages,
                 loadingInterview, loadingPreview, generating, result, cliVars,
                 netVars>>

WebStop ==
  /\ driver = "web"
  /\ ~interviewDone /\ interviewStarted /\ ~loadingInterview
  /\ handleStopInterview
  /\ UNCHANGED <<gwVars, srvVars, fnVars, histVars, driver, brief, interviewStarted, interviewHistory, interviewSummary,
                 previewFeatures, previewStories, featureMessages, storyMessages,
                 loadingInterview, loadingPreview, generating, result, cliVars,
                 netVars>>

handleRestartInterview ==
  /\ error' = NoError
  /\ result' = NoResult
  /\ interviewStarted' = FALSE
  /\ interviewHistory' = <<>>
  /\ interviewSummary' = NoSummary
  /\ interviewDone' = FALSE
  /\ currentQuestion' = NoQuestion
  /\ featureMessages' = <<>>
  /\ storyMessages' = <<>>
  /\ lastOp' = "restart"

\* Variant of WebRestart: the Restart buttons are not disabled while an
\* interview step is loading.
WebRestartWhileLoading ==
  /\ driver = "web"
  /\ interviewDone \/ interviewStarted
  /\ handleRestartInterview
  /\ staleIds' = {r.id : r \in inflight}
  /\ UNCHANGED <<gwVars, srvVars, fnVars, overtakenIds, driver, brief, previewFeatures,
                 previewStories, loadingInterview, loadingPreview, generating, cliVars,
                 netVars>>

\* the Restart and Restart Interview buttons: disabled={loadingInterview}
WebRestart ==
  /\ driver = "web"
  /\ interviewDone \/ interviewStarted
  /\ ~loadingInterview
  /\ handleRestartInterview
  /\ staleIds' = {r.id : r \in inflight}
  /\ UNCHANGED <<gwVars, srvVars, fnVars, overtakenIds, driver, brief, previewFeatures,
                 previewStories, loadingInterview, loadingPreview, generating, cliVars,
                 netVars>>

\* refreshPreview(interviewHistory, undefined, feedbackOverride) up to its fetch
refreshPreview(feedbackOverride) ==
  LET activeBrief == Trim(brief)
  IN IF activeBrief = <<>>
       THEN UNCHANGED <<loadingPreview, netVars>>
       ELSE /\ CanIssue(1)
            /\ loadingPreview' = TRUE
            /\ inflight' = inflight \cup
                 {Request(nextId, "preview", "message", activeBrief,
                          interviewHistory, NoSummary, feedbackOverride)}
            /\ nextId' = nextId + 1

sendFeatureMessage(index, draft) ==
  LET nextMessage == Trim(draft)
      nextFeatureMessages == PutFeatureMessage(featureMessages, index, nextMessage)
  IN IF nextMessage = <<>>
       THEN /\ lastOp' = "messageEmpty"
            /\ UNCHANGED <<featureMessages, loadingPreview, netVars>>
       ELSE /\ featureMessages' = nextFeatureMessages
            /\ refreshPreview(buildFeedback(nextFeatureMessages, storyMessages,
                                            previewFeatures, previewStories))
            /\ lastOp' = "featureMessage"

\* Variant of WebSendFeatureMessage: the message panel does not depend on the
\* feature being in the displayed preview.
WebSendFeatureMessageAnyIndex(index, draft) ==
  /\ driver = "web"
  /\ interviewDone
  /\ ~loadingPreview
  /\ sendFeatureMessage(index, draft)
  /\ UNCHANGED <<gwVars, srvVars, fnVars, histVars, driver, brief, interviewStarted, currentQuestion, interviewHistory,
                 interviewSummary, interviewDone, previewFeatures, previewStories,
                 storyMessages, loadingInterview, generating, result, error,
                 cliVars>>

\* a feature's Send Message button: shown for every displayed feature once the
\* interview is done, disabled={loadingPreview}
WebSendFeatureMessage(index, draft) ==
  /\ driver = "web"
  /\ interviewDone
  /\ index + 1 <= Len(previewFeatures)
  /\ ~loadingPreview
  /\ sendFeatureMessage(index, draft)
  /\ UNCHANGED <<gwVars, srvVars, fnVars, histVars, driver, brief, interviewStarted, currentQuestion, interviewHistory,
                 interviewSummary, interviewDone, previewFeatures, previewStories,
                 storyMessages, loadingInterview, generating, result, error,
                 cliVars>>

\* Variant of sendStoryMessage: the refresh is requested with the feedback built
\* from the story messages as they were before this message.
sendStoryMessageStaleFeedback(storyId, draft) ==
  LET nextMessage == Trim(draft)
      nextStoryMessages == PutStoryMessage(storyMessages, storyId, nextMessage)
  IN IF nextMessage = <<>>
       THEN /\ lastOp' = "messageEmpty"
            /\ UNCHANGED <<storyMessages, loadingPreview, netVars>>
       ELSE /\ storyMessages' = nextStoryMessages
            /\ refreshPreview(buildFeedback(featureMessages, storyMessages,
                                            previewFeatures, previewStories))
            /\ lastOp' = "storyMessage"

sendStoryMessage(storyId, draft) ==
  LET nextMessage == Trim(draft)
      nextStoryMessages == PutStoryMessage(storyMessages, storyId, nextMessage)
  IN IF nextMessage = <<>>
       THEN /\ lastOp' = "messageEmpty"
            /\ UNCHANGED <<storyMessages, loadingPreview, netVars>>
       ELSE /\ storyMessages' = nextStoryMessages
            /\ refreshPreview(buildFeedback(featureMessages, nextStoryMessages,
                                            previewFeatures, previewStories))
            /\ lastOp' = "storyMessage"

\* The stories that have a row (and a message panel): those a displayed feature
\* lists in userStoryIds and storyLookup resolves.
DisplayedStoryIds ==
  {id \in StoryIds(previewStories) :
     \E i \in 1..Len(previewFeatures) :
       \E j \in 1..Len(previewFeatures[i].userStoryIds) :
         previewFeatures[i].userStoryIds[j] = id}

WebSendStoryMessage(storyId, draft) ==
  /\ driver = "web"
  /\ interviewDone
  /\ storyId \in DisplayedStoryIds
  /\ ~loadingPreview
  /\ sendStoryMessage(storyId, draft)
  /\ UNCHANGED <<gwVars, srvVars, fnVars, histVars, driver, brief, interviewStarted, currentQuestion, interviewHistory,
                 interviewSummary, interviewDone, previewFeatures, previewStories,
                 featureMessages, loadingInterview, generating, result, error,
                 cliVars>>

\* Variant of handleGenerate: the payload leaves out interviewSummary.
handleGenerateWithoutSummary ==
  /\ CanIssue(1)
  /\ generating' = TRUE
  /\ error' = NoError
  /\ result' = NoResult
  /\ inflight' = inflight \cup
       {Request(nextId, "generate", "generate", brief, interviewHistory,
                NoSummary,
                buildFeedback(featureMessages, storyMessages, previewFeatures,
                              previewStories))}
  /\ nextId' = nextId + 1
  /\ lastOp' = "generate"

\* handleGenerate up to its fetch; feedback.length > 0 ? feedback : undefined
\* (an absent feedback and an empty one format to the same empty block)
handleGenerate ==
  /\ CanIssue(1)
  /\ generating' = TRUE
  /\ error' = NoError
  /\ result' = NoResult
  /\ inflight' = inflight \cup
       {Request(nextId, "generate", "generate", brief, interviewHistory,
                interviewSummary,
                buildFeedback(featureMessages, storyMessages, previewFeatures,
                              previewStories))}
  /\ nextId' = nextId + 1
  /\ lastOp' = "generate"

\* the Generate PRD button: shown once the interview is done,
\* disabled={generating || loadingInterview}
WebGenerate ==
  /\ driver = "web"
  /\ interviewDone
  /\ ~generating /\ ~loadingInterview
  /\ handleGenerate
  /\ UNCHANGED <<gwVars, srvVars, fnVars, histVars, driver, sessionVars, loadingInterview, loadingPreview, cliVars>>

WebInterviewResponse ==
  /\ driver = "web"
  /\ \E r \in Pending("interview") : \E o \in InterviewOutcomes :
       /\ SetView(AfterInterviewResponse(View, o))
       /\ inflight' = inflight \ {r}
       /\ staleIds' = staleIds \ {r.id}
       /\ lastOp' = IF o.ok THEN "interviewOk" ELSE "interviewFailed"
  /\ UNCHANGED <<gwVars, srvVars, fnVars, overtakenIds, driver, brief, interviewStarted, interviewHistory, featureMessages,
                 storyMessages, generating, result, cliVars, nextId>>

WebPreviewResponse ==
  /\ driver = "web"
  /\ \E r \in Pending("preview") : \E o \in PreviewOutcomes :
       /\ SetView(AfterPreviewResponse(View, o))
       /\ inflight' = inflight \ {r}
       /\ staleIds' = staleIds \ {r.id}
       /\ overtakenIds' =
            (IF o.ok
               THEN overtakenIds \cup {q.id : q \in {x \in Pending("preview") : x.id < r.id}}
               ELSE overtakenIds) \ {r.id}
       /\ lastOp' = IF o.ok THEN "previewOk" ELSE "previewFailed"
  /\ UNCHANGED <<gwVars, srvVars, fnVars, driver, brief, interviewStarted, interviewHistory, featureMessages,
                 storyMessages, generating, result, cliVars, nextId>>

\* handleGenerate, from the response on
WebGenerateResponse ==
  /\ driver = "web"
  /\ \E r \in Pending("generate") : \E o \in GenerateOutcomes :
       /\ IF o.ok
            THEN result' = o.data /\ UNCHANGED error
            ELSE error' = "Generation failed." /\ UNCHANGED result
       /\ generating' = FALSE
       /\ inflight' = inflight \ {r}
       /\ staleIds' = staleIds \ {r.id}
       /\ lastOp' = IF o.ok THEN "generateOk" ELSE "generateFailed"
  /\ UNCHANGED <<gwVars, srvVars, fnVars, overtakenIds, driver, sessionVars, loadingInterview, loadingPreview, cliVars,
                 nextId>>

FeatureIndexes == 0..1
StoryKeys == {"US-001", "US-002"}

WebNext ==
  \/ \E b \in BriefInputs : WebSetBrief(b)
  \/ WebStart
  \/ \E a \in AnswerDrafts : WebSendAnswer(a)
  \/ WebStop
  \/ WebRestart
  \/ \E i \in FeatureIndexes : \E m \in MessageInputs : WebSendFeatureMessage(i, m)
  \/ \E k \in StoryKeys : \E m \in MessageInputs : WebSendStoryMessage(k, m)
  \/ WebGenerate
  \/ WebInterviewResponse
  \/ WebPreviewResponse
  \/ WebGenerateResponse

\* ---------------------------------------------------------- cli/index.js
NoStep == [message |-> "", done |-> FALSE, summary |-> NoSummary]
FeatureChoice == <<"f", " ">>
StoryChoice == <<"S">>
ChoiceInputs == {<<>>, <<"N">>, FeatureChoice, StoryChoice, <<"x">>,
                 <<"/", "F", "i", "n", "i", "s", "h">>, Restart}
NumberInputs == 0..3
\* the story id typed at "Story ID (e.g. US-001): ", already trimmed
StoryIdInputs == {"US-001", "US-002", "US-009"}

\* main's catch and finally: the error line, the JSON error line, exitCode 1
\* Variant of CliFail: the catch block leaves process.exitCode alone.
CliFailExitZero(message) ==
  /\ error' = message
  /\ out' = Append(out, [ok |-> FALSE, error |-> message])
  /\ UNCHANGED exitCode
  /\ rlClosed' = TRUE
  /\ pc' = "exit"

CliFail(message) ==
  /\ error' = message
  /\ out' = Append(out, [ok |-> FALSE, error |-> message])
  /\ exitCode' = 1
  /\ rlClosed' = TRUE
  /\ pc' = "exit"

\* generateInterviewStep({ brief, history }) at the top of the while loop
CliRequestStep(b, h) ==
  /\ inflight' = inflight \cup
       {Request(nextId, "interview", IF h = <<>> THEN "start" ELSE "answer", b, h,
                NoSummary, <<>>)}
  /\ nextId' = nextId + 1
  /\ pc' = "awaitStep"

\* generatePreview({ brief, history, summary, feedback })
CliRequestPreview(origin, h, s, feedback) ==
  /\ inflight' = inflight \cup
       {Request(nextId, "preview", origin, brief, h, s, feedback)}
  /\ nextId' = nextId + 1
  /\ pc' = "awaitPreview"

\* main after runInterview has returned: buildFeedback,
\* buildClarifyingAnswersWithFeedback, generatePrdData
CliRequestGenerate(h, s, fm, sm) ==
  /\ inflight' = inflight \cup
       {Request(nextId, "generate", "generate", brief, h, s,
                buildFeedback(fm, sm, previewFeatures, previewStories))}
  /\ nextId' = nextId + 1
  /\ pc' = "awaitGenerate"

\* while (!done): the next step, or the return to main and the final synthesis
CliLoop(d, h, s, fm, sm) ==
  IF d THEN CliRequestGenerate(h, s, fm, sm) ELSE CliRequestStep(brief, h)

\* runInterview(brief, { skipPreview }): fresh locals, then the first step
runInterview(b) ==
  /\ interviewStarted' = TRUE
  /\ interviewHistory' = <<>>
  /\ interviewDone' = FALSE
  /\ interviewSummary' = NoSummary
  /\ featureMessages' = <<>>
  /\ storyMessages' = <<>>
  /\ previewFeatures' = <<>>
  /\ previewStories' = <<>>
  /\ CliRequestStep(b, <<>>)

\* main: "What do you want to build? "
CliBrief(input) ==
  /\ driver = "cli"
  /\ pc = "promptBrief"
  /\ IF Trim(input) = <<>>
       THEN /\ CliFail("Brief is required.")
            /\ lastOp' = "startRejected"
            /\ UNCHANGED <<sessionVars, netVars>>
       ELSE /\ CanIssue(1)
            /\ brief' = Trim(input)
            /\ runInterview(Trim(input))
            /\ lastOp' = "start"
            /\ UNCHANGED <<currentQuestion, error, out, exitCode, rlClosed>>
  /\ UNCHANGED <<gwVars, srvVars, fnVars, histVars, files, driver, loadingInterview, loadingPreview, generating, result, step,
                 skipPreview>>

\* generateInterviewStep has returned or thrown
CliStepResponse ==
  /\ driver = "cli"
  /\ pc = "awaitStep"
  /\ \E r \in Pending("interview") : \E o \in InterviewOutcomes :
       /\ inflight' = inflight \ {r}
       /\ IF ~o.ok
            THEN /\ CliFail("Interview step failed.")
                 /\ lastOp' = "interviewFailed"
                 /\ UNCHANGED <<step, currentQuestion>>
          ELSE IF o.message = ""
            THEN /\ CliFail("Interview question missing.")
                 /\ lastOp' = "questionMissing"
                 /\ step' = [message |-> o.message, done |-> o.done,
                             summary |-> o.summary]
                 /\ UNCHANGED currentQuestion
            ELSE /\ step' = [message |-> o.message, done |-> o.done,
                             summary |-> o.summary]
                 /\ currentQuestion' = o.message
                 /\ pc' = "promptAnswer"
                 /\ lastOp' = "interviewOk"
                 /\ UNCHANGED <<error, out, exitCode, rlClosed>>
  /\ UNCHANGED <<gwVars, srvVars, fnVars, histVars, files, driver, brief, interviewStarted, interviewHistory, interviewSummary,
                 interviewDone, previewFeatures, previewStories, featureMessages,
                 storyMessages, loadingInterview, loadingPreview, generating, result,
                 skipPreview, nextId>>

\* Variant of CliAnswer: /finish and /restart are compared as typed, without
\* toLowerCase().
CliAnswerCaseSensitive(input) ==
  LET answerInput == Trim(input)
      nextSummary == IF IsArray(step.summary) THEN step.summary ELSE interviewSummary
      nextHistory == Append(interviewHistory,
                            [question |-> currentQuestion,
                             answer |-> IF answerInput # <<>> THEN answerInput
                                        ELSE NoAnswer])
  IN
  /\ driver = "cli"
  /\ pc = "promptAnswer"
  /\ CanIssue(1)
  /\ IF answerInput = Restart
       THEN /\ runInterview(brief)
            /\ lastOp' = "restart"
     ELSE IF answerInput = Finish
       THEN /\ interviewSummary' = nextSummary
            /\ interviewDone' = TRUE
            /\ CliRequestGenerate(interviewHistory, nextSummary, featureMessages,
                                  storyMessages)
            /\ lastOp' = "finish"
            /\ UNCHANGED <<interviewStarted, interviewHistory, previewFeatures,
                           previewStories, featureMessages, storyMessages>>
       ELSE /\ Len(interviewHistory) < MaxTurns
            /\ interviewHistory' = nextHistory
            /\ interviewDone' = step.done
            /\ interviewSummary' = nextSummary
            /\ IF ~skipPreview
                 THEN CliRequestPreview("answer", nextHistory, nextSummary,
                        buildFeedback(featureMessages, storyMessages,
                                      previewFeatures, previewStories))
                 ELSE CliLoop(step.done, nextHistory, nextSummary, featureMessages,
                              storyMessages)
            /\ lastOp' = "sendAnswer"
            /\ UNCHANGED <<interviewStarted, previewFeatures, previewStories,
                           featureMessages, storyMessages>>
  /\ UNCHANGED <<gwVars, srvVars, fnVars, histVars, files, driver, brief, currentQuestion, uiVars, step, skipPreview, out, exitCode, rlClosed>>

\* Variant of CliAnswer: the preview is generated whatever --skip-preview says.
CliAnswerAlwaysPreview(input) ==
  LET answerInput == Trim(input)
      nextSummary == IF IsArray(step.summary) THEN step.summary ELSE interviewSummary
      nextHistory == Append(interviewHistory,
                            [question |-> currentQuestion,
                             answer |-> IF answerInput # <<>> THEN answerInput
                                        ELSE NoAnswer])
  IN
  /\ driver = "cli"
  /\ pc = "promptAnswer"
  /\ CanIssue(1)
  /\ IF ToLower(answerInput) = Restart
       THEN /\ runInterview(brief)
            /\ lastOp' = "restart"
     ELSE IF ToLower(answerInput) = Finish
       THEN /\ interviewSummary' = nextSummary
            /\ interviewDone' = TRUE
            /\ CliRequestGenerate(interviewHistory, nextSummary, featureMessages,
                                  storyMessages)
            /\ lastOp' = "finish"
            /\ UNCHANGED <<interviewStarted, interviewHistory, previewFeatures,
                           previewStories, featureMessages, storyMessages>>
       ELSE /\ Len(interviewHistory) < MaxTurns
            /\ interviewHistory' = nextHistory
            /\ interviewDone' = step.done
            /\ interviewSummary' = nextSummary
            /\ IF TRUE
                 THEN CliRequestPreview("answer", nextHistory, nextSummary,
                        buildFeedback(featureMessages, storyMessages,
                                      previewFeatures, previewStories))
                 ELSE CliLoop(step.done, nextHistory, nextSummary, featureMessages,
                              storyMessages)
            /\ lastOp' = "sendAnswer"
            /\ UNCHANGED <<interviewStarted, previewFeatures, previewStories,
                           featureMessages, storyMessages>>
  /\ UNCHANGED <<gwVars, srvVars, fnVars, histVars, files, driver, brief, currentQuestion, uiVars, step, skipPreview, out, exitCode, rlClosed>>

\* "Your answer (or /finish, /restart): "
CliAnswer(input) ==
  LET answerInput == Trim(input)
      nextSummary == IF IsArray(step.summary) THEN step.summary ELSE interviewSummary
      nextHistory == Append(interviewHistory,
                            [question |-> currentQuestion,
                             answer |-> IF answerInput # <<>> THEN answerInput
                                        ELSE NoAnswer])
  IN
  /\ driver = "cli"
  /\ pc = "promptAnswer"
  /\ CanIssue(1)
  /\ IF ToLower(answerInput) = Restart
       THEN /\ runInterview(brief)
            /\ lastOp' = "restart"
     ELSE IF ToLower(answerInput) = Finish
       THEN /\ interviewSummary' = nextSummary
            /\ interviewDone' = TRUE
            /\ CliRequestGenerate(interviewHistory, nextSummary, featureMessages,
                                  storyMessages)
            /\ lastOp' = "finish"
            /\ UNCHANGED <<interviewStarted, interviewHistory, previewFeatures,
                           previewStories, featureMessages, storyMessages>>
       ELSE /\ Len(interviewHistory) < MaxTurns
            /\ interviewHistory' = nextHistory
            /\ interviewDone' = step.done
            /\ interviewSummary' = nextSummary
            /\ IF ~skipPreview
                 THEN CliRequestPreview("answer", nextHistory, nextSummary,
                        buildFeedback(featureMessages, storyMessages,
                                      previewFeatures, previewStories))
                 ELSE CliLoop(step.done, nextHistory, nextSummary, featureMessages,
                              storyMessages)
            /\ lastOp' = "sendAnswer"
            /\ UNCHANGED <<interviewStarted, previewFeatures, previewStories,
                           featureMessages, storyMessages>>
  /\ UNCHANGED <<gwVars, srvVars, fnVars, histVars, files, driver, brief, currentQuestion, uiVars, step, skipPreview, out, exitCode, rlClosed>>

\* generatePreview has returned or thrown
CliPreviewResponse ==
  /\ driver = "cli"
  /\ pc = "awaitPreview"
  /\ \E r \in Pending("preview") : \E o \in PreviewOutcomes :
       /\ inflight' = inflight \ {r}
       /\ IF o.ok
            THEN /\ previewFeatures' = o.features
                 /\ previewStories' = o.userStories
                 /\ pc' = "promptFeedback"
                 /\ lastOp' = "previewOk"
                 /\ UNCHANGED <<error, out, exitCode, rlClosed>>
            ELSE /\ CliFail("Preview failed.")
                 /\ lastOp' = "previewFailed"
                 /\ UNCHANGED <<previewFeatures, previewStories>>
  /\ UNCHANGED <<gwVars, srvVars, fnVars, histVars, files, driver, brief, interviewStarted, currentQuestion, interviewHistory,
                 interviewSummary, interviewDone, featureMessages, storyMessages,
                 loadingInterview, loadingPreview, generating, result, step,
                 skipPreview, nextId>>

\* One pass of the feedback loop: "Add message? [f]eature, [s]tory, [n]ext,
\* /finish, /restart: " and the prompts that follow the choice.
CliFeedback(choiceInput, number, storyId, messageInput) ==
  LET choice == ToLower(Trim(choiceInput))
      index == number - 1
      message == Trim(messageInput)
      nextFeatureMessages == PutFeatureMessage(featureMessages, index, message)
      nextStoryMessages == PutStoryMessage(storyMessages, storyId, message)
      stay == /\ lastOp' = "feedbackInvalid"
              /\ UNCHANGED <<sessionVars, netVars, pc>>
  IN
  /\ driver = "cli"
  /\ pc = "promptFeedback"
  /\ CanIssue(1)
  /\ IF choice = <<>> \/ choice = <<"n">>
       THEN /\ CliLoop(interviewDone, interviewHistory, interviewSummary,
                       featureMessages, storyMessages)
            /\ lastOp' = "feedbackNext"
            /\ UNCHANGED sessionVars
     ELSE IF choice = Restart
       THEN /\ runInterview(brief)
            /\ lastOp' = "restart"
            /\ UNCHANGED <<brief, currentQuestion>>
     ELSE IF choice = Finish
       THEN /\ interviewDone' = TRUE
            /\ CliLoop(TRUE, interviewHistory, interviewSummary, featureMessages,
                       storyMessages)
            /\ lastOp' = "finish"
            /\ UNCHANGED <<brief, interviewStarted, currentQuestion,
                           interviewHistory, interviewSummary, previewFeatures,
                           previewStories, featureMessages, storyMessages>>
     ELSE IF choice = <<"f">>
       THEN IF \/ previewFeatures = <<>>
               \/ number < 1 \/ index >= Len(previewFeatures)
               \/ message = <<>>
              THEN stay
              ELSE /\ featureMessages' = nextFeatureMessages
                   /\ CliRequestPreview("message", interviewHistory, interviewSummary,
                        buildFeedback(nextFeatureMessages, storyMessages,
                                      previewFeatures, previewStories))
                   /\ lastOp' = "featureMessage"
                   /\ UNCHANGED <<brief, interviewStarted, currentQuestion,
                                  interviewHistory, interviewSummary, interviewDone,
                                  previewFeatures, previewStories, storyMessages>>
     ELSE IF choice = <<"s">>
       THEN IF \/ previewStories = <<>>
               \/ storyId \notin StoryIds(previewStories)
               \/ message = <<>>
              THEN stay
              ELSE /\ storyMessages' = nextStoryMessages
                   /\ CliRequestPreview("message", interviewHistory, interviewSummary,
                        buildFeedback(featureMessages, nextStoryMessages,
                                      previewFeatures, previewStories))
                   /\ lastOp' = "storyMessage"
                   /\ UNCHANGED <<brief, interviewStarted, currentQuestion,
                                  interviewHistory, interviewSummary, interviewDone,
                                  previewFeatures, previewStories, featureMessages>>
       ELSE stay
  /\ UNCHANGED <<gwVars, srvVars, fnVars, histVars, files, driver, uiVars, step, skipPreview, out, exitCode, rlClosed>>

\* main: generatePrdData has returned or thrown
CliGenerateResponse ==
  /\ driver = "cli"
  /\ pc = "awaitGenerate"
  /\ \E r \in Pending("generate") : \E o \in GenerateOutcomes :
       /\ inflight' = inflight \ {r}
       /\ IF o.ok
            THEN /\ result' = o.data
                 /\ pc' = "writeFiles"
                 /\ lastOp' = "generateOk"
                 /\ UNCHANGED <<error, out, exitCode, rlClosed>>
            ELSE /\ CliFail("Generation failed.")
                 /\ lastOp' = "generateFailed"
                 /\ UNCHANGED result
  /\ UNCHANGED <<gwVars, srvVars, fnVars, histVars, files, driver, sessionVars, loadingInterview, loadingPreview, generating,
                 step, skipPreview, nextId>>

PrdPath == "prd.md"
PrdJsonPath == "prd.json"
\* ensureDir, writeFile(prdPath), writeFile(prdJsonPath): the first that throws
WriteOutcomes == {"mkdirFails", "markdownFails", "jsonFails", "written"}

\* main from ensureDir(tasksDir) to its end: the two files, the echo, the
\* summary line; catch and finally
CliWriteFiles(outcome) ==
  /\ driver = "cli"
  /\ pc = "writeFiles"
  /\ files' = CASE outcome \in {"mkdirFails", "markdownFails"} -> files
                [] outcome = "jsonFails" -> files \cup {PrdPath}
                [] outcome = "written" -> files \cup {PrdPath, PrdJsonPath}
  /\ IF outcome = "written"
       THEN /\ out' = Append(out, [ok |-> TRUE, error |-> ""])
            /\ rlClosed' = TRUE
            /\ pc' = "exit"
            /\ lastOp' = "filesWritten"
            /\ UNCHANGED <<error, exitCode>>
       ELSE /\ CliFail("EACCES: permission denied")
            /\ lastOp' = "writeFailed"
  /\ UNCHANGED <<gwVars, srvVars, fnVars, histVars, driver, sessionVars, loadingInterview, loadingPreview,
                 generating, result, step, skipPreview, netVars>>

CliNext ==
  \/ \E b \in BriefInputs : CliBrief(b)
  \/ CliStepResponse
  \/ \E a \in AnswerInputs : CliAnswer(a)
  \/ CliPreviewResponse
  \/ \E c \in ChoiceInputs \ {FeatureChoice, StoryChoice} :
       CliFeedback(c, 0, "US-001", <<>>)
  \/ \E n \in NumberInputs : \E m \in MessageInputs :
       CliFeedback(FeatureChoice, n, "US-001", m)
  \/ \E k \in StoryIdInputs : \E m \in MessageInputs :
       CliFeedback(StoryChoice, 0, k, m)
  \/ CliGenerateResponse
  \/ \E w \in WriteOutcomes : CliWriteFiles(w)

\* ------------------------------------- lib/prd.js extractJson, lib/openai.js
\* The characters a completion's content is made of.
Chars == {"{", "}", " ", "x"}
RECURSIVE TextsOfLen(_)
TextsOfLen(n) ==
  IF n = 0 THEN {<<>>}
  ELSE {Append(t, c) : t \in TextsOfLen(n - 1), c \in Chars}
Texts == UNION {TextsOfLen(n) : n \in 0..MaxTextLen}

\* text.indexOf(c) and text.lastIndexOf(c), 1-based, 0 when c is absent
IndexOf(text, c) ==
  IF \E i \in 1..Len(text) : text[i] = c
    THEN CHOOSE i \in 1..Len(text) :
           text[i] = c /\ \A j \in 1..(i - 1) : text[j] # c
    ELSE 0
LastIndexOf(text, c) ==
  IF \E i \in 1..Len(text) : text[i] = c
    THEN CHOOSE i \in 1..Len(text) :
           text[i] = c /\ \A j \in (i + 1)..Len(text) : text[j] # c
    ELSE 0

\* JSON.parse on a slice that starts with "{" and ends with "}": over Chars the
\* only JSON texts of that form are "{", white space, "}".
JsonParses(slice) ==
  /\ Len(slice) >= 2
  /\ slice[1] = "{" /\ slice[Len(slice)] = "}"
  /\ \A i \in 2..(Len(slice) - 1) : IsSpace(slice[i])

\* Variant of extractJson: the test for an empty text is left out.
extractJsonNoEmptyTest(text) ==
  LET first == IndexOf(text, "{")
      last == LastIndexOf(text, "}")
      slice == SubSeq(text, first, last)
  IN IF first = 0 \/ last = 0 \/ last <= first
       THEN [ok |-> FALSE, error |-> "No JSON object found in response",
             value |-> <<>>]
     ELSE IF ~JsonParses(slice)
       THEN [ok |-> FALSE, error |-> "SyntaxError", value |-> <<>>]
       ELSE [ok |-> TRUE, error |-> "", value |-> slice]

extractJson(text) ==
  LET first == IndexOf(text, "{")
      last == LastIndexOf(text, "}")
      slice == SubSeq(text, first, last)
  IN IF text = <<>>
       THEN [ok |-> FALSE, error |-> "No text to parse as JSON", value |-> <<>>]
     ELSE IF first = 0 \/ last = 0 \/ last <= first
       THEN [ok |-> FALSE, error |-> "No JSON object found in response",
             value |-> <<>>]
     ELSE IF ~JsonParses(slice)
       THEN [ok |-> FALSE, error |-> "SyntaxError", value |-> <<>>]
       ELSE [ok |-> TRUE, error |-> "", value |-> slice]

NoReturn == [ok |-> FALSE, error |-> "<none>", value |-> <<>>]
\* What client.chat.completions.create may do: reject, or resolve with a content
\* (an absent content reads as the empty text: content || "").
CallOutcomes ==
  {[rejected |-> TRUE, content |-> <<>>]}
  \cup [rejected : {FALSE}, content : Texts]

\* getOpenAIClient(): throws unless process.env.OPENAI_API_KEY is set
getOpenAIClient == apiKey

\* generateJsonResponse: getOpenAIClient(), then the first create() call, which
\* asks for response_format json_object
GwInvoke ==
  /\ driver = "gateway"
  /\ gwPc \in {"idle", "returned", "threw"}
  /\ gwResponses' = <<>>
  /\ IF ~getOpenAIClient
       THEN /\ gwCalls' = <<>>
            /\ gwReturn' = [ok |-> FALSE, error |-> "OPENAI_API_KEY is not set",
                            value |-> <<>>]
            /\ gwPc' = "threw"
            /\ lastOp' = "gwNoKey"
       ELSE /\ gwCalls' = <<[jsonMode |-> TRUE]>>
            /\ gwReturn' = NoReturn
            /\ gwPc' = "first"
            /\ lastOp' = "gwInvoke"
  /\ UNCHANGED <<driverVars, srvVars, fnVars, apiKey>>

\* the catch block of generateJsonResponse up to its create(): the fallback
\* call, which asks for no response format
GwFallbackCall ==
  /\ gwCalls' = Append(gwCalls, [jsonMode |-> FALSE])
  /\ gwPc' = "fallback"
  /\ lastOp' = "gwFallback"
  /\ UNCHANGED gwReturn

\* Variant of GwFirstResponse: only a rejected call is retried; content that
\* does not decode fails the invocation at once.
GwFirstResponseNoDecodeRetry ==
  /\ driver = "gateway"
  /\ gwPc = "first"
  /\ \E o \in CallOutcomes :
       /\ gwResponses' = Append(gwResponses, o)
       /\ IF o.rejected
            THEN GwFallbackCall
            ELSE /\ gwReturn' = extractJson(o.content)
                 /\ gwPc' = IF extractJson(o.content).ok THEN "returned" ELSE "threw"
                 /\ lastOp' = IF extractJson(o.content).ok THEN "gwReturned"
                              ELSE "gwThrew"
                 /\ UNCHANGED gwCalls
  /\ UNCHANGED <<driverVars, srvVars, fnVars, apiKey>>

\* the try block of generateJsonResponse from the first response on
GwFirstResponse ==
  /\ driver = "gateway"
  /\ gwPc = "first"
  /\ \E o \in CallOutcomes :
       /\ gwResponses' = Append(gwResponses, o)
       /\ IF ~o.rejected /\ extractJson(o.content).ok
            THEN /\ gwReturn' = extractJson(o.content)
                 /\ gwPc' = "returned"
                 /\ lastOp' = "gwReturned"
                 /\ UNCHANGED gwCalls
            ELSE GwFallbackCall
  /\ UNCHANGED <<driverVars, srvVars, fnVars, apiKey>>

\* Variant of GwFallbackResponse: a fallback content that does not decode is
\* reported with a message of the gateway's own, not with extractJson's error.
GwFallbackResponseOwnError ==
  /\ driver = "gateway"
  /\ gwPc = "fallback"
  /\ \E o \in CallOutcomes :
       /\ gwResponses' = Append(gwResponses, o)
       /\ IF o.rejected \/ ~extractJson(o.content).ok
            THEN /\ gwReturn' = [ok |-> FALSE, error |-> "call rejected",
                                 value |-> <<>>]
                 /\ gwPc' = "threw"
                 /\ lastOp' = "gwThrew"
            ELSE /\ gwReturn' = extractJson(o.content)
                 /\ gwPc' = "returned"
                 /\ lastOp' = "gwReturned"
  /\ UNCHANGED <<driverVars, srvVars, fnVars, apiKey, gwCalls>>

\* the catch block from the fallback response on: nothing catches its failure
GwFallbackResponse ==
  /\ driver = "gateway"
  /\ gwPc = "fallback"
  /\ \E o \in CallOutcomes :
       /\ gwResponses' = Append(gwResponses, o)
       /\ IF o.rejected
            THEN /\ gwReturn' = [ok |-> FALSE, error |-> "call rejected",
                                 value |-> <<>>]
                 /\ gwPc' = "threw"
                 /\ lastOp' = "gwThrew"
            ELSE /\ gwReturn' = extractJson(o.content)
                 /\ gwPc' = IF extractJson(o.content).ok THEN "returned" ELSE "threw"
                 /\ lastOp' = IF extractJson(o.content).ok THEN "gwReturned"
                              ELSE "gwThrew"
  /\ UNCHANGED <<driverVars, srvVars, fnVars, apiKey, gwCalls>>

GwNext == GwInvoke \/ GwFirstResponse \/ GwFallbackResponse

GwInit ==
  /\ driver = "gateway"
  /\ pc = "idle"
  /\ brief = <<>>
  /\ interviewStarted = FALSE
  /\ currentQuestion = NoQuestion
  /\ interviewHistory = <<>>
  /\ interviewSummary = NoSummary
  /\ interviewDone = FALSE
  /\ previewFeatures = <<>>
  /\ previewStories = <<>>
  /\ featureMessages = <<>>
  /\ storyMessages = <<>>
  /\ loadingInterview = FALSE
  /\ loadingPreview = FALSE
  /\ generating = FALSE
  /\ result = NoResult
  /\ error = NoError
  /\ step = NoStep
  /\ skipPreview = FALSE
  /\ out = <<>>
  /\ exitCode = 0
  /\ rlClosed = FALSE
  /\ files = {}
  /\ inflight = {}
  /\ nextId = 1
  /\ staleIds = {}
  /\ overtakenIds = {}
  /\ apiKey \in BOOLEAN
  /\ gwPc = "idle"
  /\ gwCalls = <<>>
  /\ gwResponses = <<>>
  /\ gwReturn = NoReturn
  /\ SrvIdle
  /\ FnIdle
  /\ lastOp = "init"

SpecGateway == GwInit /\ [][GwNext]_vars

\* ------------------------------------------------------------ endpoints
\* The four route handlers (app/api/*/route.ts), one request at a time.
Routes == {"interview", "preview", "generate", "transcribe"}
Respond(status, message) == [status |-> status, error |-> message]

\* the message of each handler's catch block
FailureMessage(route) ==
  CASE route = "interview" -> "Interview failed"
    [] route = "preview" -> "Preview failed"
    [] route = "generate" -> "Generation failed"
    [] route = "transcribe" -> "Transcription failed"

\* the awaited calls of a handler after its checks: generateInterviewStep;
\* inferNamesFromBrief and generatePrdData; transcriptions.create
RequiredCalls(route) == IF route \in {"preview", "generate"} THEN 2 ELSE 1

EpReceive(route, request) ==
  /\ driver = "endpoint"
  /\ epPc \in {"idle", "responded", "threw"}
  /\ epServed < MaxReqs
  /\ epServed' = epServed + 1
  /\ epRoute' = route
  /\ epRequest' = request
  /\ epCallsLeft' = 0
  /\ epResponse' = NoResponse
  /\ epPc' = "received"
  /\ lastOp' = "epReceive"
  /\ UNCHANGED <<driverVars, gwVars, fnVars>>

\* interview, preview and generate POST up to the first awaited call: the body
\* is read inside the try block
JsonPOST ==
  /\ driver = "endpoint"
  /\ epPc = "received"
  /\ epRoute # "transcribe"
  /\ IF ~epRequest.readable
       THEN /\ epResponse' = Respond(500, FailureMessage(epRoute))
            /\ epPc' = "responded"
            /\ lastOp' = "epBodyUnreadable"
            /\ UNCHANGED epCallsLeft
     ELSE IF ~epRequest.field
       THEN /\ epResponse' = Respond(400, "Brief is required")
            /\ epPc' = "responded"
            /\ lastOp' = "epFieldMissing"
            /\ UNCHANGED epCallsLeft
       ELSE /\ epCallsLeft' = RequiredCalls(epRoute)
            /\ epPc' = "calling"
            /\ lastOp' = "epCalling"
            /\ UNCHANGED epResponse
  /\ UNCHANGED <<driverVars, gwVars, fnVars, epRoute, epRequest, epServed>>

\* transcribe POST up to transcriptions.create: the key test, request.formData()
\* and the file test come before the try block
TranscribePOST ==
  /\ driver = "endpoint"
  /\ epPc = "received"
  /\ epRoute = "transcribe"
  /\ IF ~apiKey
       THEN /\ epResponse' = Respond(500, "OPENAI_API_KEY is not set")
            /\ epPc' = "responded"
            /\ lastOp' = "epKeyMissing"
            /\ UNCHANGED epCallsLeft
     ELSE IF ~epRequest.readable
       THEN /\ epPc' = "threw"
            /\ lastOp' = "epBodyUnreadable"
            /\ UNCHANGED <<epResponse, epCallsLeft>>
     ELSE IF ~epRequest.field
       THEN /\ epResponse' = Respond(400, "Missing audio file")
            /\ epPc' = "responded"
            /\ lastOp' = "epFieldMissing"
            /\ UNCHANGED epCallsLeft
       ELSE /\ epCallsLeft' = RequiredCalls(epRoute)
            /\ epPc' = "calling"
            /\ lastOp' = "epCalling"
            /\ UNCHANGED epResponse
  /\ UNCHANGED <<driverVars, gwVars, fnVars, epRoute, epRequest, epServed>>

\* an awaited call returns or throws (getOpenAIClient throws without the key);
\* every handler awaits its calls inside its try block
EpCallReturns(ok) ==
  /\ driver = "endpoint"
  /\ epPc = "calling"
  /\ ok => apiKey
  /\ IF ~ok
       THEN /\ epResponse' = Respond(500, FailureMessage(epRoute))
            /\ epPc' = "responded"
            /\ epCallsLeft' = 0
            /\ lastOp' = "epCallFailed"
     ELSE IF epCallsLeft = 1
       THEN /\ epResponse' = Respond(200, "")
            /\ epPc' = "responded"
            /\ epCallsLeft' = 0
            /\ lastOp' = "epOk"
       ELSE /\ epCallsLeft' = epCallsLeft - 1
            /\ lastOp' = "epCalling"
            /\ UNCHANGED <<epResponse, epPc>>
  /\ UNCHANGED <<driverVars, gwVars, fnVars, epRoute, epRequest, epServed>>

EpNext ==
  \/ \E route \in Routes : \E request \in Requests : EpReceive(route, request)
  \/ JsonPOST
  \/ TranscribePOST
  \/ \E ok \in BOOLEAN : EpCallReturns(ok)

EpInit ==
  /\ driver = "endpoint"
  /\ pc = "idle"
  /\ brief = <<>>
  /\ interviewStarted = FALSE
  /\ currentQuestion = NoQuestion
  /\ interviewHistory = <<>>
  /\ interviewSummary = NoSummary
  /\ interviewDone = FALSE
  /\ previewFeatures = <<>>
  /\ previewStories = <<>>
  /\ featureMessages = <<>>
  /\ storyMessages = <<>>
  /\ loadingInterview = FALSE
  /\ loadingPreview = FALSE
  /\ generating = FALSE
  /\ result = NoResult
  /\ error = NoError
  /\ step = NoStep
  /\ skipPreview = FALSE
  /\ out = <<>>
  /\ exitCode = 0
  /\ rlClosed = FALSE
  /\ files = {}
  /\ inflight = {}
  /\ nextId = 1
  /\ staleIds = {}
  /\ overtakenIds = {}
  /\ apiKey \in BOOLEAN
  /\ gwPc = "idle"
  /\ gwCalls = <<>>
  /\ gwResponses = <<>>
  /\ gwReturn = NoReturn
  /\ SrvIdle
  /\ FnIdle
  /\ lastOp = "init"

SpecEndpoints == EpInit /\ [][EpNext]_vars

\* ------------------------- lib/prd.js renderers, generate/route.ts overrides
\* The pure functions, each called once on arguments drawn in the initial state.
RECURSIVE SeqsUpTo(_, _)
SeqsUpTo(S, n) ==
  IF n = 0 THEN {<<>>}
  ELSE SeqsUpTo(S, n - 1) \cup [1..n -> S]

\* a value that is an array of items, or undefined
Arr(items) == [isArray |-> TRUE, items |-> items]
Undefined == [isArray |-> FALSE, items |-> <<>>]

FeatureInputs ==
  { [name |-> "A", summary |-> "sa", userStoryIds |-> <<"US-001">>],
    [name |-> "", summary |-> "", userStoryIds |-> <<>>] }
\* overrides[index] is undefined (a hole, or an index past the end)
NoOverride == [present |-> FALSE, name |-> "", summary |-> "", userStoryIds |-> <<>>]
\* a field that is missing from an override is as falsy as an empty one
OverrideInputs ==
  { NoOverride,
    [present |-> TRUE, name |-> "A2", summary |-> "", userStoryIds |-> <<>>],
    [present |-> TRUE, name |-> "", summary |-> "S2", userStoryIds |-> <<"US-9">>],
    [present |-> TRUE, name |-> "", summary |-> "", userStoryIds |-> <<>>] }

\* Variant of applyFeatureOverrides: the result is mapped from the overrides, so
\* features past the last override are dropped.
applyFeatureOverridesTruncating(features, overrides) ==
  IF Len(overrides) = 0 THEN features
  ELSE LET n == IF Len(features.items) < Len(overrides)
                  THEN Len(features.items) ELSE Len(overrides)
       IN Arr([i \in 1..n |->
            LET feature == features.items[i]
                override == overrides[i]
            IN IF ~override.present THEN feature
               ELSE [name |-> IF override.name # "" THEN override.name
                              ELSE feature.name,
                     summary |-> IF override.summary # "" THEN override.summary
                                 ELSE feature.summary,
                     userStoryIds |-> IF Len(override.userStoryIds) > 0
                                        THEN override.userStoryIds
                                        ELSE feature.userStoryIds]])

\* generate/route.ts applyFeatureOverrides; undefined overrides are the empty
\* list here (both return features as they are)
applyFeatureOverrides(features, overrides) ==
  IF Len(overrides) = 0 THEN features
  ELSE Arr([i \in 1..Len(features.items) |->
         LET feature == features.items[i]
             override == IF i <= Len(overrides) THEN overrides[i] ELSE NoOverride
         IN IF ~override.present THEN feature
            ELSE [name |-> IF override.name # "" THEN override.name
                           ELSE feature.name,
                  summary |-> IF override.summary # "" THEN override.summary
                              ELSE feature.summary,
                  userStoryIds |-> IF Len(override.userStoryIds) > 0
                                     THEN override.userStoryIds
                                     ELSE feature.userStoryIds]])

OverrideCalls ==
  { [fn |-> "applyFeatureOverrides",
     args |-> [features |-> f, overrides |-> o]] :
      f \in {Undefined} \cup {Arr(items) : items \in SeqsUpTo(FeatureInputs, MaxItems)},
      o \in SeqsUpTo(OverrideInputs, MaxItems + 1) }

CallApplyFeatureOverrides ==
  /\ driver = "prd"
  /\ fnPc = "ready"
  /\ fnName = "applyFeatureOverrides"
  /\ fnResult' = applyFeatureOverrides(fnArgs.features, fnArgs.overrides)
  /\ fnPc' = "returned"
  /\ lastOp' = "applyFeatureOverrides"
  /\ UNCHANGED <<driverVars, gwVars, srvVars, fnName, fnArgs>>

\* ensureList(value, fallback): fallback for a value that is no array or empty
\* Variant of ensureList: only a value that is no array gets the fallback.
ensureListMissingOnly(value, fallback) ==
  IF ~value.isArray THEN fallback ELSE value.items

ensureList(value, fallback) ==
  IF ~value.isArray \/ Len(value.items) = 0 THEN fallback ELSE value.items

CriteriaInputs == {Undefined, Arr(<<>>), Arr(<<"c1">>)}
StoryInputs ==
  { [id |-> id, title |-> "T-" \o id, description |-> "D-" \o id,
     acceptanceCriteria |-> c] : id \in {"US-002", "US-001"}, c \in CriteriaInputs }

\* Variant of buildPrdJson: the priority is the number in the story's id.
buildPrdJsonPriorityFromId(data) ==
  LET safeStories == IF data.userStories.isArray THEN data.userStories.items
                     ELSE <<>>
  IN [project |-> data.project,
      branchName |-> data.branchName,
      description |-> data.description,
      userStories |->
        [index \in 1..Len(safeStories) |->
           LET story == safeStories[index]
           IN [id |-> story.id,
               title |-> story.title,
               description |-> story.description,
               acceptanceCriteria |-> ensureList(story.acceptanceCriteria, <<"TBD">>),
               priority |-> IF story.id = "US-001" THEN 1 ELSE 2,
               passes |-> FALSE,
               notes |-> ""]]]

buildPrdJson(data) ==
  LET safeStories == IF data.userStories.isArray THEN data.userStories.items
                     ELSE <<>>
  IN [project |-> data.project,
      branchName |-> data.branchName,
      description |-> data.description,
      userStories |->
        [index \in 1..Len(safeStories) |->
           LET story == safeStories[index]
           IN [id |-> story.id,
               title |-> story.title,
               description |-> story.description,
               acceptanceCriteria |-> ensureList(story.acceptanceCriteria, <<"TBD">>),
               priority |-> index,
               passes |-> FALSE,
               notes |-> ""]]]

PrdJsonCalls ==
  { [fn |-> "buildPrdJson",
     args |-> [project |-> "Project", branchName |-> "feature/core",
               description |-> "d", userStories |-> s]] :
      s \in {Undefined} \cup {Arr(items) : items \in SeqsUpTo(StoryInputs, MaxItems + 1)} }

CallBuildPrdJson ==
  /\ driver = "prd"
  /\ fnPc = "ready"
  /\ fnName = "buildPrdJson"
  /\ fnResult' = buildPrdJson(fnArgs)
  /\ fnPc' = "returned"
  /\ lastOp' = "buildPrdJson"
  /\ UNCHANGED <<driverVars, gwVars, srvVars, fnName, fnArgs>>

\* ---- buildPrdMarkdown: the text as the sequence of its lines, a line as the
\* sequence of its pieces (template text, interpolated values, characters)
Digits == {"0", "1", "2", "3", "4", "5", "6", "7", "8", "9"}

RECURSIVE SkipDigits(_, _)
\* \d+ from position i on: the position after the run of digits
SkipDigits(item, i) ==
  IF i <= Len(item) /\ item[i] \in Digits THEN SkipDigits(item, i + 1) ELSE i

\* Variant of MatchesFrPrefix: the test is made without the i flag.
MatchesFrPrefixCaseSensitive(item) ==
  LET k == SkipDigits(item, 4)
  IN /\ Len(item) >= 5
     /\ item[1] = "F"
     /\ item[2] = "R"
     /\ item[3] = "-"
     /\ k > 4
     /\ k <= Len(item)
     /\ item[k] = ":"

\* /^FR-\d+:/i.test(item)
MatchesFrPrefix(item) ==
  LET k == SkipDigits(item, 4)
  IN /\ Len(item) >= 5
     /\ LowerChar(item[1]) = "f"
     /\ LowerChar(item[2]) = "r"
     /\ item[3] = "-"
     /\ k > 4
     /\ k <= Len(item)
     /\ item[k] = ":"

\* list.map((item) => `- ${item}`).join("\n")
Bullets(list) == [i \in 1..Len(list) |-> <<"- ", list[i]>>]

\* one story's block: heading, description, blank line, criteria
StoryBlock(story) ==
  LET criteria == ensureList(story.acceptanceCriteria, <<"TBD">>)
  IN << <<"### ", story.id, ": ", story.title>>,
        <<"**Description:** ", story.description>>,
        <<>>,
        <<"**Acceptance Criteria:**">> >>
     \o [i \in 1..Len(criteria) |-> <<"- [ ] ", criteria[i]>>]

RECURSIVE JoinStoryBlocks(_)
\* .join("\n\n"): a blank line between two blocks
JoinStoryBlocks(stories) ==
  IF stories = <<>> THEN <<>>
  ELSE IF Len(stories) = 1 THEN StoryBlock(stories[1])
  ELSE StoryBlock(stories[1]) \o << <<>> >> \o JoinStoryBlocks(Tail(stories))

buildPrdMarkdown(data) ==
  LET safeGoals == ensureList(data.goals, <<"TBD">>)
      safeUserStories == ensureList(data.userStories, <<>>)
      safeFunctional == ensureList(data.functionalRequirements, << <<"TBD">> >>)
      safeNonGoals == ensureList(data.nonGoals, <<"TBD">>)
      safeDesign == ensureList(data.designConsiderations, <<"TBD">>)
      safeTechnical == ensureList(data.technicalConsiderations, <<"TBD">>)
      safeSuccess == ensureList(data.successMetrics, <<"TBD">>)
      safeOpen == ensureList(data.openQuestions, <<"TBD">>)
      introText == IF data.introduction # "" THEN data.introduction ELSE "TBD"
      storyBlocks == JoinStoryBlocks(safeUserStories)
      numberedFunctional ==
        [index \in 1..Len(safeFunctional) |->
           LET item == safeFunctional[index]
           IN <<"- ">> \o (IF MatchesFrPrefix(item) THEN item
                           ELSE <<"FR-", ToString(index), ": ">> \o item)]
  IN << <<"# PRD: ", data.featureName>>, <<>>,
        <<"## Introduction/Overview">>, <<introText>>, <<>>,
        <<"## Goals">> >>
     \o Bullets(safeGoals) \o << <<>>, <<"## User Stories">> >>
     \o (IF storyBlocks # <<>> THEN storyBlocks ELSE << <<"TBD">> >>)
     \o << <<>>, <<"## Functional Requirements">> >>
     \o numberedFunctional
     \o << <<>>, <<"## Non-Goals (Out of Scope)">> >>
     \o Bullets(safeNonGoals)
     \o << <<>>, <<"## Design Considerations (Optional)">> >>
     \o Bullets(safeDesign)
     \o << <<>>, <<"## Technical Considerations (Optional)">> >>
     \o Bullets(safeTechnical)
     \o << <<>>, <<"## Success Metrics">> >>
     \o Bullets(safeSuccess)
     \o << <<>>, <<"## Open Questions">> >>
     \o Bullets(safeOpen)
     \o << <<>> >>

\* functional requirements as typed: "x", "FR-9: x", "fr-9:x", "FR-:x",
\* "FR-12:", "xFR-9:", "FR-9x"
FrItems ==
  { <<"x">>,
    <<"F", "R", "-", "9", ":", " ", "x">>,
    <<"f", "r", "-", "9", ":", "x">>,
    <<"F", "R", "-", ":", "x">>,
    <<"F", "R", "-", "1", "2", ":">>,
    <<"x", "F", "R", "-", "9", ":">>,
    <<"F", "R", "-", "9", "x">> }
ListInputs == {Undefined, Arr(<<>>), Arr(<<"i1">>)}
MarkdownDefaults ==
  [featureName |-> "Core", introduction |-> "intro", goals |-> Arr(<<"i1">>),
   userStories |-> Arr(<<>>), functionalRequirements |-> Arr(<< <<"x">> >>),
   nonGoals |-> Undefined, designConsiderations |-> Undefined,
   technicalConsiderations |-> Undefined, successMetrics |-> Undefined,
   openQuestions |-> Undefined]

\* buildPrdMarkdown's calls: the functional requirements vary, or the stories
\* and the introduction, or the other lists
PrdMarkdownCalls ==
  { [fn |-> "buildPrdMarkdown",
     args |-> [MarkdownDefaults EXCEPT !.functionalRequirements = f]] :
      f \in {Undefined} \cup {Arr(items) : items \in SeqsUpTo(FrItems, MaxItems)} }
  \cup
  { [fn |-> "buildPrdMarkdown",
     args |-> [MarkdownDefaults EXCEPT !.userStories = s, !.introduction = t]] :
      s \in {Undefined} \cup {Arr(items) : items \in SeqsUpTo(StoryInputs, MaxItems)},
      t \in {"", "intro"} }
  \cup
  { [fn |-> "buildPrdMarkdown",
     args |-> [MarkdownDefaults EXCEPT
                 !.goals = l[1], !.nonGoals = l[2], !.designConsiderations = l[3],
                 !.technicalConsiderations = l[4], !.successMetrics = l[5],
                 !.openQuestions = l[6], !.functionalRequirements = f]] :
      l \in [1..6 -> ListInputs], f \in {Undefined, Arr(<<>>)} }

CallBuildPrdMarkdown ==
  /\ driver = "prd"
  /\ fnPc = "ready"
  /\ fnName = "buildPrdMarkdown"
  /\ fnResult' = buildPrdMarkdown(fnArgs)
  /\ fnPc' = "returned"
  /\ lastOp' = "buildPrdMarkdown"
  /\ UNCHANGED <<driverVars, gwVars, srvVars, fnName, fnArgs>>

\* ---- kebabCase, resolveOutputPaths ----

\* the characters of a feature name: an upper-case letter, a lower-case
\* letter, a digit, a hyphen and a punctuation mark
NameChars == {"A", "b", "7", "-", "!"}

NameInputs == SeqsUpTo(NameChars, MaxTextLen)

\* String.prototype.toLowerCase
toLowerCase(value) ==
  [i \in 1..Len(value) |-> IF value[i] = "A" THEN "a" ELSE value[i]]

\* [a-z0-9]
IsAlnum(c) == c \in {"a", "b", "7"}

RECURSIVE DropRun(_)
\* the rest of a run of [^a-z0-9]
DropRun(s) ==
  IF s # <<>> /\ ~IsAlnum(Head(s)) THEN DropRun(Tail(s)) ELSE s

RECURSIVE ReplaceRuns(_)
\* .replace(/[^a-z0-9]+/g, "-")
ReplaceRuns(s) ==
  IF s = <<>> THEN <<>>
  ELSE IF IsAlnum(Head(s)) THEN <<Head(s)>> \o ReplaceRuns(Tail(s))
  ELSE <<"-">> \o ReplaceRuns(DropRun(Tail(s)))

RECURSIVE ReplaceEach(_)
\* .replace(/[^a-z0-9]/g, "-")
ReplaceEach(s) ==
  IF s = <<>> THEN <<>>
  ELSE <<IF IsAlnum(Head(s)) THEN Head(s) ELSE "-">> \o ReplaceEach(Tail(s))

\* .replace(/(^-|-$)+/g, ""): the hyphen at the start (and the one after it
\* when it ends the string), then the hyphen at the end
StripEdges(s) ==
  LET front == IF s # <<>> /\ Head(s) = "-"
               THEN (IF Tail(s) = <<"-">> THEN <<>> ELSE Tail(s))
               ELSE s
  IN IF front # <<>> /\ front[Len(front)] = "-"
     THEN SubSeq(front, 1, Len(front) - 1)
     ELSE front

\* Variant of kebabCase: every character outside [a-z0-9] becomes a hyphen.
kebabCaseEachChar(value) == StripEdges(ReplaceEach(toLowerCase(value)))

kebabCase(value) == StripEdges(ReplaceRuns(toLowerCase(value)))

\* process.cwd()
Cwd == <<"/", "w">>

\* --out values: none (""), a directory, a directory with a trailing slash
DirInputs == {<<>>, <<"o">>, <<"o", "/">>}

RECURSIVE normalize(_)
\* path.normalize, as far as path.join needs it: runs of separators collapse
normalize(p) ==
  IF Len(p) < 2 THEN p
  ELSE IF p[1] = "/" /\ p[2] = "/" THEN normalize(Tail(p))
  ELSE <<Head(p)>> \o normalize(Tail(p))

\* path.join(a, b)
pathJoin(a, b) == normalize(a \o <<"/">> \o b)

resolveOutputPaths(args) ==
  LET safeDir == IF args.outputDir # <<>> THEN args.outputDir ELSE Cwd
      tasksDir == pathJoin(safeDir, <<"tasks">>)
      prdFileName == <<"prd-">> \o kebabCase(args.featureName) \o <<".md">>
  IN [tasksDir |-> tasksDir,
      prdPath |-> pathJoin(tasksDir, prdFileName),
      prdJsonPath |-> pathJoin(safeDir, <<"prd.json">>),
      promptPath |-> pathJoin(safeDir, <<"prompt.md">>)]

KebabCalls == { [fn |-> "kebabCase", args |-> n] : n \in NameInputs }

PathCalls ==
  { [fn |-> "resolveOutputPaths", args |-> [outputDir |-> d, featureName |-> n]] :
      d \in DirInputs, n \in NameInputs }

CallKebabCase ==
  /\ driver = "prd"
  /\ fnPc = "ready"
  /\ fnName = "kebabCase"
  /\ fnResult' = kebabCase(fnArgs)
  /\ fnPc' = "returned"
  /\ lastOp' = "kebabCase"
  /\ UNCHANGED <<driverVars, gwVars, srvVars, fnName, fnArgs>>

CallResolveOutputPaths ==
  /\ driver = "prd"
  /\ fnPc = "ready"
  /\ fnName = "resolveOutputPaths"
  /\ fnResult' = resolveOutputPaths(fnArgs)
  /\ fnPc' = "returned"
  /\ lastOp' = "resolveOutputPaths"
  /\ UNCHANGED <<driverVars, gwVars, srvVars, fnName, fnArgs>>

PrdCalls ==
  OverrideCalls \cup PrdJsonCalls \cup PrdMarkdownCalls \cup KebabCalls \cup PathCalls

PrdNext ==
  \/ CallApplyFeatureOverrides
  \/ CallBuildPrdJson
  \/ CallBuildPrdMarkdown
  \/ CallKebabCase
  \/ CallResolveOutputPaths

PrdInit ==
  /\ driver = "prd"
  /\ pc = "idle"
  /\ brief = <<>>
  /\ interviewStarted = FALSE
  /\ currentQuestion = NoQuestion
  /\ interviewHistory = <<>>
  /\ interviewSummary = NoSummary
  /\ interviewDone = FALSE
  /\ previewFeatures = <<>>
  /\ previewStories = <<>>
  /\ featureMessages = <<>>
  /\ storyMessages = <<>>
  /\ loadingInterview = FALSE
  /\ loadingPreview = FALSE
  /\ generating = FALSE
  /\ result = NoResult
  /\ error = NoError
  /\ step = NoStep
  /\ skipPreview = FALSE
  /\ out = <<>>
  /\ exitCode = 0
  /\ rlClosed = FALSE
  /\ files = {}
  /\ inflight = {}
  /\ nextId = 1
  /\ staleIds = {}
  /\ overtakenIds = {}
  /\ apiKey = TRUE
  /\ gwPc = "idle"
  /\ gwCalls = <<>>
  /\ gwResponses = <<>>
  /\ gwReturn = NoReturn
  /\ SrvIdle
  /\ \E c \in PrdCalls : fnName = c.fn /\ fnArgs = c.args
  /\ fnPc = "ready"
  /\ fnResult = <<>>
  /\ lastOp = "init"

SpecPrd == PrdInit /\ [][PrdNext]_vars

Init ==
  /\ driver \in {"web", "cli"}
  /\ pc = IF driver = "cli" THEN "promptBrief" ELSE "idle"
  /\ brief = <<>>
  /\ interviewStarted = FALSE
  /\ currentQuestion = NoQuestion
  /\ interviewHistory = <<>>
  /\ interviewSummary = NoSummary
  /\ interviewDone = FALSE
  /\ previewFeatures = <<>>
  /\ previewStories = <<>>
  /\ featureMessages = <<>>
  /\ storyMessages = <<>>
  /\ loadingInterview = FALSE
  /\ loadingPreview = FALSE
  /\ generating = FALSE
  /\ result = NoResult
  /\ error = NoError
  /\ step = NoStep
  /\ skipPreview \in (IF driver = "cli" THEN BOOLEAN ELSE {FALSE})
  /\ out = <<>>
  /\ exitCode = 0
  /\ rlClosed = FALSE
  /\ files = {}
  /\ inflight = {}
  /\ nextId = 1
  /\ staleIds = {}
  /\ overtakenIds = {}
  /\ apiKey = TRUE
  /\ gwPc = "idle"
  /\ gwCalls = <<>>
  /\ gwResponses = <<>>
  /\ gwReturn = NoReturn
  /\ SrvIdle
  /\ FnIdle
  /\ lastOp = "init"

Next == WebNext \/ CliNext

Spec == Init /\ [][Next]_vars


\* ------------------------------------------------------------------ claims
\* C1: a restart (the web's Restart buttons, the CLI's /restart) leaves every
\* session-local collection empty: the history, the summary, the feature and
\* story messages and the cached preview features and stories.
C1_RestartClearsSession ==
  lastOp = "restart" =>
    /\ interviewHistory = <<>>
    /\ interviewSummary = NoSummary
    /\ featureMessages = <<>>
    /\ storyMessages = <<>>
    /\ previewFeatures = <<>>
    /\ previewStories = <<>>

\* C2: once the interview is done (the model said done, or the user finished),
\* every step that is not a restart keeps it done and issues no interview-step
\* request.
C2_DoneUntilRestart ==
  [][(interviewDone /\ lastOp' # "restart") =>
       /\ interviewDone'
       /\ {r \in inflight' : r.kind = "interview"} \subseteq inflight]_vars

C2_Witness ==
  /\ interviewDone
  /\ lastOp \in {"featureMessage", "storyMessage"}
  /\ interviewHistory # <<>>

\* C3: when an answer submission is accepted, no request issued by an earlier
\* answer submission (next question or preview refresh) is still in flight.
C3_RequestsCompleteBeforeNextAnswer ==
  [][lastOp' = "sendAnswer" => \A r \in inflight : r.origin # "answer"]_vars

\* The two requests of one web answer submission, both in flight.
SubmissionPairs ==
  {pair \in Pending("preview") \X Pending("interview") :
     /\ driver = "web"
     /\ pair[1].origin = "answer" /\ pair[2].origin = "answer"
     /\ pair[2].id = pair[1].id + 1}

\* C4 as stated: whichever of the two responses of one submission is handled
\* first, the resulting state is the same, for every success/failure combination.
C4_OrderIndependent ==
  SubmissionPairs # {} =>
    \A po \in PreviewOutcomes : \A io \in InterviewOutcomes :
      AfterInterviewResponse(AfterPreviewResponse(View, po), io)
        = AfterPreviewResponse(AfterInterviewResponse(View, io), po)

\* C4 amended: the two orders agree on every field but the error, and on the
\* error too unless both requests fail; when both fail the error shown is that
\* of the response handled last.
C4_OrderIndependentButError ==
  SubmissionPairs # {} =>
    \A po \in PreviewOutcomes : \A io \in InterviewOutcomes :
      LET previewFirst == AfterInterviewResponse(AfterPreviewResponse(View, po), io)
          interviewFirst == AfterPreviewResponse(AfterInterviewResponse(View, io), po)
      IN /\ [previewFirst EXCEPT !.error = NoError]
              = [interviewFirst EXCEPT !.error = NoError]
         /\ (po.ok \/ io.ok) => previewFirst = interviewFirst
         /\ (~po.ok /\ ~io.ok) =>
              /\ previewFirst.error = "Interview request failed."
              /\ interviewFirst.error = "Preview failed."

C4_Witness ==
  /\ SubmissionPairs # {}
  /\ lastOp = "sendAnswer"
  /\ Len(interviewHistory) = 2

\* C5: a step leaves the history alone, or appends exactly one turn made of the
\* pending question and the trimmed answer ("(no answer)" for an empty CLI
\* answer), or is a restart, which empties it.
C5_HistoryAppendOnly ==
  [][\/ interviewHistory' = interviewHistory
     \/ /\ lastOp' = "sendAnswer"
        /\ currentQuestion # NoQuestion
        /\ \E a \in AnswerDrafts \cup AnswerInputs :
             /\ driver = "web" => Trim(a) # <<>>
             /\ interviewHistory' =
                  Append(interviewHistory,
                         [question |-> currentQuestion,
                          answer |-> IF Trim(a) = <<>> THEN NoAnswer ELSE Trim(a)])
     \/ /\ lastOp' = "restart"
        /\ interviewHistory' = <<>>]_vars

C5_Witness ==
  /\ lastOp = "sendAnswer"
  /\ Len(interviewHistory) = 2
  /\ interviewHistory[1].answer = NoAnswer

\* C6: when a next-question or preview request fails, the step that handles the
\* failure leaves the history as it is, reports an error and issues no request.
FailureMessages ==
  {"Interview request failed.", "Preview failed.", "Interview step failed."}

C6_FailureKeepsTurn ==
  [][lastOp' \in {"interviewFailed", "previewFailed"} =>
       /\ interviewHistory' = interviewHistory
       /\ error' \in FailureMessages
       /\ inflight' \subseteq inflight
       /\ nextId' = nextId]_vars

C6_Witness ==
  /\ lastOp \in {"interviewFailed", "previewFailed"}
  /\ interviewHistory # <<>>
  /\ error \in FailureMessages

AllMessages(map) == Flatten([i \in 1..Len(map) |-> map[i].msgs])

\* C8: a final synthesis request is issued only with the interview done, and the
\* clarifying answers built from it hold every turn of the history in order,
\* the summary, and every recorded feedback message.
C8_SynthesisInput ==
  [][\A r \in inflight' \ inflight :
       r.kind = "generate" =>
         LET input == buildClarifyingAnswers(r.brief, r.history, r.summary,
                                             r.feedback)
             messages == AllMessages(featureMessages') \o AllMessages(storyMessages')
         IN /\ interviewDone'
            /\ Len(input.lines) = Len(interviewHistory')
            /\ \A i \in 1..Len(interviewHistory') :
                 /\ input.lines[i].n = i
                 /\ input.lines[i].question = interviewHistory'[i].question
                 /\ input.lines[i].answer = interviewHistory'[i].answer
            /\ IsArray(interviewSummary') => input.summaryBlock = interviewSummary'
            /\ Len(input.feedbackBlock) = Len(messages)
            /\ \A i \in 1..Len(messages) :
                 input.feedbackBlock[i].msg = messages[i]]_vars

C8_Witness ==
  \E r \in Pending("generate") :
    /\ r.history # <<>>
    /\ IsArray(r.summary)
    /\ r.feedback # <<>>
    /\ lastOp \in {"generate", "finish", "feedbackNext"}

\* C9: a start with an empty or all-white-space brief starts nothing and issues
\* no request; a start with any other brief issues exactly one interview-step
\* request, which carries the trimmed brief and an empty history.
C9_StartNeedsBrief ==
  [][/\ lastOp' = "startRejected" =>
          /\ ~interviewStarted'
          /\ inflight' = inflight
          /\ nextId' = nextId
     /\ (driver = "web" /\ lastOp' \in {"start", "startRejected"}) =>
          (lastOp' = "startRejected" <=> Trim(brief) = <<>>)
     /\ lastOp' = "start" =>
          /\ interviewStarted'
          /\ Trim(brief') # <<>>
          /\ \E r \in inflight' \ inflight :
               /\ inflight' = inflight \cup {r}
               /\ r.kind = "interview"
               /\ r.brief = Trim(brief')
               /\ r.history = <<>>]_vars

C9_Witness ==
  /\ lastOp = "start"
  /\ \E r \in inflight : r.origin = "start" /\ r.brief = <<"b">>

\* The first attempt of a gateway invocation failed: the call was rejected or
\* its content did not decode.
FirstAttemptFailed ==
  gwResponses[1].rejected \/ ~extractJson(gwResponses[1].content).ok

\* C10 as stated: every finished invocation has made one or two calls.
C10_OneOrTwoCalls ==
  gwPc \in {"returned", "threw"} => Len(gwCalls) \in {1, 2}

\* C10 amended: without an API key the invocation fails before any call; with
\* one it makes one or two calls, the first asking for a JSON object, a second
\* one without that hint exactly when the first attempt failed, and a failed
\* second attempt fails the invocation.
C10_CallsWithKey ==
  /\ Len(gwCalls) <= 2
  /\ gwPc \in {"returned", "threw"} =>
       IF ~apiKey
         THEN gwCalls = <<>> /\ gwPc = "threw"
         ELSE /\ Len(gwCalls) \in {1, 2}
              /\ Len(gwResponses) = Len(gwCalls)
              /\ gwCalls[1].jsonMode
              /\ Len(gwCalls) = 2 <=> FirstAttemptFailed
              /\ Len(gwCalls) = 2 =>
                   /\ ~gwCalls[2].jsonMode
                   /\ (gwResponses[2].rejected
                        \/ ~extractJson(gwResponses[2].content).ok)
                      <=> gwPc = "threw"
              /\ Len(gwCalls) = 1 => gwPc = "returned"

C10_Witness ==
  /\ gwPc = "returned"
  /\ Len(gwCalls) = 2
  /\ ~gwResponses[1].rejected
  /\ gwReturn.value = <<"{", " ", "}">>

\* The responses of this invocation that came back (not rejected) with a
\* content that does not decode as a JSON object.
Undecodable ==
  {i \in 1..Len(gwResponses) :
     ~gwResponses[i].rejected /\ ~extractJson(gwResponses[i].content).ok}

\* C11 as stated: a completion call that comes back with content that does not
\* decode is the invocation's last call, and the invocation fails with
\* extractJson's error.
C11_UndecodableNotRetried ==
  \A i \in Undecodable :
    /\ Len(gwCalls) = i
    /\ gwPc = "threw"
    /\ gwReturn = extractJson(gwResponses[i].content)

\* C11 amended: undecodable content of the first call is followed by exactly one
\* more call, the fallback without the JSON hint; undecodable content of the
\* fallback call is followed by no call and the invocation fails with
\* extractJson's error.
C11_UndecodableRetriedOnce ==
  \A i \in Undecodable :
    /\ Len(gwCalls) = 2
    /\ ~gwCalls[2].jsonMode
    /\ i = 2 =>
         /\ gwPc = "threw"
         /\ gwReturn = extractJson(gwResponses[2].content)
         /\ gwReturn.error \in {"No text to parse as JSON",
                                "No JSON object found in response", "SyntaxError"}

C11_Witness ==
  /\ gwPc = "threw"
  /\ Undecodable = {1, 2}
  /\ gwReturn.error = "SyntaxError"

\* The content the last answered call came back with, when extractJson's
\* outcome on it is the invocation's outcome.
Decoded == gwResponses[Len(gwResponses)].content
DecodedLast ==
  /\ lastOp \in {"gwReturned", "gwThrew"}
  /\ gwResponses # <<>>
  /\ ~gwResponses[Len(gwResponses)].rejected

\* text has a "{" at a position strictly before a later "}"
HasBracePair(text) ==
  \E i \in 1..Len(text) : \E j \in (i + 1)..Len(text) :
    text[i] = "{" /\ text[j] = "}"

\* C12 as stated: extractJson succeeds exactly on the texts that hold a "{"
\* before a later "}", and fails on every other text with "No JSON object found".
C12_SucceedsIffBracePair ==
  DecodedLast =>
    /\ gwReturn.ok <=> HasBracePair(Decoded)
    /\ ~gwReturn.ok => gwReturn.error = "No JSON object found in response"

\* C12 amended: extractJson fails with "No text to parse as JSON" on the empty
\* text and with "No JSON object found" on every other text without a "{" before
\* a later "}"; on a text with such a pair it returns what JSON.parse makes of
\* the text from the first "{" to the last "}", or fails with JSON.parse's error.
C12_BracePairThenParse ==
  DecodedLast =>
    /\ Decoded = <<>> => gwReturn.error = "No text to parse as JSON"
    /\ (Decoded # <<>> /\ ~HasBracePair(Decoded)) =>
         gwReturn.error = "No JSON object found in response"
    /\ ~HasBracePair(Decoded) => ~gwReturn.ok
    /\ HasBracePair(Decoded) =>
         /\ gwReturn.error \in {"", "SyntaxError"}
         /\ gwReturn.ok <=> gwReturn.error = ""
         /\ gwReturn.ok =>
              \E i \in 1..Len(Decoded) : \E j \in i..Len(Decoded) :
                /\ gwReturn.value = SubSeq(Decoded, i, j)
                /\ \A k \in 1..(i - 1) : Decoded[k] # "{"
                /\ \A k \in (j + 1)..Len(Decoded) : Decoded[k] # "}"
                /\ Decoded[i] = "{" /\ Decoded[j] = "}"

C12_Witness ==
  /\ DecodedLast
  /\ Decoded = <<"{", "x", "}">>
  /\ gwReturn.error = "SyntaxError"

\* preview/route.ts buildClarifyingAnswers(brief, interview, feedback): the
\* preview endpoint takes no summary and builds no summary block.
previewBuildClarifyingAnswers(b, interview, feedback) ==
  [brief |-> b,
   lines |-> [i \in 1..Len(interview) |->
               [n |-> i, question |-> interview[i].question,
                answer |-> interview[i].answer]],
   summaryBlock |-> <<>>,
   feedbackBlock |-> formatFeedback(feedback)]

\* [`Brief: ${brief}`, ...lines, summaryBlock, feedbackBlock].filter(Boolean)
\* .join("\n\n"): the text as the sequence of its blocks; an empty block is the
\* empty string, which filter(Boolean) drops.
JoinBlocks(ca) ==
  <<[header |-> "Brief", n |-> 0, items |-> <<ca.brief>>]>>
  \o [i \in 1..Len(ca.lines) |->
        [header |-> "Q", n |-> ca.lines[i].n,
         items |-> <<ca.lines[i].question, ca.lines[i].answer>>]]
  \o (IF ca.summaryBlock # <<>>
        THEN <<[header |-> "Summary", n |-> 0, items |-> ca.summaryBlock]>>
        ELSE <<>>)
  \o (IF ca.feedbackBlock # <<>>
        THEN <<[header |-> "Feedback", n |-> 0,
                items |-> [i \in 1..Len(ca.feedbackBlock) |->
                             ca.feedbackBlock[i].label \o <<": ">>
                               \o ca.feedbackBlock[i].msg]]>>
        ELSE <<>>)

\* The clarifying-answers text the synthesis behind request r is given: the web
\* preview goes through preview/route.ts, the web generation through
\* generate/route.ts, the CLI through buildClarifyingAnswersWithFeedback.
SynthesisText(r) ==
  IF driver = "web" /\ r.kind = "preview"
    THEN JoinBlocks(previewBuildClarifyingAnswers(r.brief, r.history, r.feedback))
    ELSE JoinBlocks(buildClarifyingAnswers(r.brief, r.history, r.summary,
                                           r.feedback))

\* C13: the text of every synthesis request, when it is issued, is the brief
\* line, then one Q/A block per turn of the session in order, numbered from 1,
\* then a Summary block exactly when the session has a non-empty summary, then
\* a Feedback block exactly when the session has a feedback line; no block is
\* empty.
C13_SynthesisTextLayout ==
  [][\A r \in inflight' \ inflight :
       r.kind \in {"preview", "generate"} =>
         LET text == SynthesisText(r)
             turns == Len(interviewHistory')
             hasSummary == IsArray(interviewSummary') /\ interviewSummary' # <<>>
             lines == buildFeedback(featureMessages', storyMessages',
                                    previewFeatures', previewStories')
         IN /\ Len(text) = 1 + turns + (IF hasSummary THEN 1 ELSE 0)
                             + (IF lines # <<>> THEN 1 ELSE 0)
            /\ text[1].header = "Brief"
            /\ \A i \in 1..turns :
                 text[1 + i] =
                   [header |-> "Q", n |-> i,
                    items |-> <<interviewHistory'[i].question,
                                interviewHistory'[i].answer>>]
            /\ hasSummary =>
                 text[turns + 2] =
                   [header |-> "Summary", n |-> 0, items |-> interviewSummary']
            /\ lines # <<>> =>
                 /\ text[Len(text)].header = "Feedback"
                 /\ Len(text[Len(text)].items) = Len(lines)
            /\ \A i \in 1..Len(text) : text[i].items # <<>>]_vars

\* Object.entries(map): the keys in the order the entries are iterated
KeyOrder(map) == [i \in 1..Len(map) |-> map[i].key]

\* new is old with one message added at the end of one key's list
GrownByOne(old, new) ==
  \E i \in 1..Len(new) :
    /\ new[i].msgs # <<>>
    /\ SubSeq(new[i].msgs, 1, Len(new[i].msgs) - 1) = MapGet(old, new[i].key)
    /\ \A j \in 1..Len(new) : j # i => new[j].msgs = MapGet(old, new[j].key)
    /\ MapKeys(new) = MapKeys(old) \cup {new[i].key}
    /\ Len(new) = Cardinality(MapKeys(new))

\* a key that receives its first message is listed after the keys that have one
InsertionOrdered(old, new) ==
  \/ KeyOrder(new) = KeyOrder(old)
  \/ \E k \in MapKeys(new) \ MapKeys(old) : KeyOrder(new) = Append(KeyOrder(old), k)

\* the feedback list holds the feature messages in the order of the feature
\* map's entries, then the story messages in the order of the story map's
FeedbackLayout(feedback, fm, sm) ==
  LET features == AllMessages(fm)
      stories == AllMessages(sm)
  IN /\ Len(feedback) = Len(features) + Len(stories)
     /\ \A i \in 1..Len(features) :
          /\ feedback[i].msg = features[i]
          /\ feedback[i].label[1] \in {"Feature \"", "Feature "}
     /\ \A i \in 1..Len(stories) :
          /\ feedback[Len(features) + i].msg = stories[i]
          /\ feedback[Len(features) + i].label[1] = "Story "

AppendedAt(old, new, key) ==
  LET msgs == MapGet(new, key)
      Pos(k) == CHOOSE i \in 1..Len(new) : new[i].key = k
  IN /\ msgs # <<>>
     /\ msgs[Len(msgs)] # <<>>
     /\ Trim(msgs[Len(msgs)]) = msgs[Len(msgs)]
     /\ SubSeq(msgs, 1, Len(msgs) - 1) = MapGet(old, key)
     /\ MapKeys(new) = MapKeys(old) \cup {key}
     /\ Len(new) = Cardinality(MapKeys(new))
     /\ \A k \in MapKeys(old) \ {key} : MapGet(new, k) = MapGet(old, k)
     /\ \A a \in 1..Len(old) : \A b \in 1..Len(old) :
          a < b => Pos(old[a].key) < Pos(old[b].key)

\* C15: the feature and story message maps change only by a restart, which
\* empties them, or by the recording of one message: non-empty trimmed text,
\* added at the end of the list of a feature index or story id that the preview
\* shown at that moment holds, every other recorded message left as it was.
C15_MessagesAppendOnly ==
  [][/\ featureMessages' # featureMessages =>
          \/ lastOp' = "restart" /\ featureMessages' = <<>>
          \/ /\ lastOp' = "featureMessage"
             /\ storyMessages' = storyMessages
             /\ \E index \in MapKeys(featureMessages') :
                  /\ index + 1 <= Len(previewFeatures)
                  /\ AppendedAt(featureMessages, featureMessages', index)
     /\ storyMessages' # storyMessages =>
          \/ lastOp' = "restart" /\ storyMessages' = <<>>
          \/ /\ lastOp' = "storyMessage"
             /\ featureMessages' = featureMessages
             /\ \E storyId \in MapKeys(storyMessages') :
                  /\ storyId \in StoryIds(previewStories)
                  /\ AppendedAt(storyMessages, storyMessages', storyId)
     /\ lastOp' \in {"featureMessage", "storyMessage"} =>
          MessageCount(featureMessages') + MessageCount(storyMessages')
            = MessageCount(featureMessages) + MessageCount(storyMessages) + 1]_vars

\* a second message has just been added to a story that already had one
C15_Witness ==
  /\ lastOp = "storyMessage"
  /\ \E i \in 1..Len(storyMessages) :
       /\ Len(storyMessages[i].msgs) = 2
       /\ storyMessages[i].key \in StoryIds(previewStories)

\* the messages of a feedback list, in its order
FeedbackMessages(feedback) == [i \in 1..Len(feedback) |-> feedback[i].msg]

\* C16: the step that records a feedback message issues exactly one request, a
\* preview synthesis whose feedback holds every message recorded so far, the
\* new one included; and a preview response that succeeds replaces the preview
\* feature list and story list, both, by the lists of the response.
C16_MessageRefreshesPreview ==
  [][/\ lastOp' \in {"featureMessage", "storyMessage"} =>
          /\ MessageCount(featureMessages') + MessageCount(storyMessages')
               = MessageCount(featureMessages) + MessageCount(storyMessages) + 1
          /\ Cardinality(inflight' \ inflight) = 1
          /\ inflight \subseteq inflight'
          /\ \A r \in inflight' \ inflight :
               /\ r.kind = "preview"
               /\ r.origin = "message"
               /\ r.history = interviewHistory'
               /\ FeedbackMessages(r.feedback)
                    = AllMessages(featureMessages') \o AllMessages(storyMessages')
     /\ lastOp' = "previewOk" =>
          /\ \E r \in inflight \ inflight' : r.kind = "preview"
          /\ [features |-> previewFeatures', userStories |-> previewStories']
               \in PreviewResults]_vars

\* the refresh asked for by the one recorded message has come back with an
\* empty preview, which has replaced the preview the message was about
C16_Witness ==
  /\ lastOp = "previewOk"
  /\ MessageCount(featureMessages) + MessageCount(storyMessages) = 1
  /\ inflight = {}
  /\ previewFeatures = <<>>
  /\ previewStories = <<>>

\* C17: outside a restart, which starts a session without a summary, the session
\* summary changes only to the summary list that an interview-step response
\* carried; a response without a summary list leaves the summary as it was.
C17_SummaryFromResponseOnly ==
  [][interviewSummary' # interviewSummary =>
       \/ lastOp' = "restart" /\ interviewSummary' = NoSummary
       \/ /\ IsArray(interviewSummary')
          /\ interviewSummary' \in Summaries
          /\ driver = "web" => lastOp' = "interviewOk"
          /\ driver = "cli" => interviewSummary' = step.summary]_vars

\* C18: a handler that has finished answered 400 when the body could be read and
\* the required field was missing, and whenever a step of it failed (the body
\* could not be read, the key was missing, a call threw) it answered 500 with the
\* one message of its route.
C18_EndpointErrors ==
  epPc \in {"responded", "threw"} =>
    /\ (epRequest.readable /\ ~epRequest.field) =>
         epPc = "responded" /\ epResponse.status = 400
    /\ ~epRequest.readable =>
         epPc = "responded" /\ epResponse = Respond(500, FailureMessage(epRoute))
    /\ (epPc = "threw" \/ epResponse.status \notin {200, 400}) =>
         epPc = "responded" /\ epResponse = Respond(500, FailureMessage(epRoute))
    /\ epResponse.status = 200 => epRequest.readable /\ epRequest.field /\ apiKey

\* C19: a CLI run that has ended has written exactly one machine-readable line
\* and closed the readline handle; the line says ok:true exactly when both the
\* markdown file and prd.json were written, and otherwise says ok:false with
\* the error message and the exit status is non-zero. No such line is written
\* before the run ends.
C19_OneFinalLine ==
  driver = "cli" =>
    /\ pc # "exit" => out = <<>> /\ ~rlClosed /\ exitCode = 0
    /\ pc = "exit" =>
         /\ Len(out) = 1
         /\ rlClosed
         /\ out[1].ok <=> files = {PrdPath, PrdJsonPath}
         /\ ~out[1].ok =>
              /\ out[1].error # ""
              /\ out[1].error = error
              /\ exitCode # 0

\* the run failed on writing prd.json, after the markdown file was written
C19_Witness ==
  /\ driver = "cli"
  /\ pc = "exit"
  /\ files = {PrdPath}
  /\ out = <<[ok |-> FALSE, error |-> "EACCES: permission denied"]>>

\* the answers recorded in the history that are a control token once trimmed
\* and lower-cased
RecordedTokens ==
  {i \in 1..Len(interviewHistory) :
     ToLower(Trim(interviewHistory[i].answer)) \in {Finish, Restart}}

\* C20: in the CLI no recorded turn has /finish or /restart, in any letter case,
\* as its answer; /finish leaves the history as it is, ends the interview and
\* asks for the final synthesis with that history; /restart discards history,
\* summary, messages and preview and asks for the first step of a new interview
\* with the same brief.
C20_ControlTokensNotRecorded ==
  [][driver = "cli" =>
       /\ RecordedTokens' = {}
       /\ lastOp' = "finish" =>
            /\ interviewHistory' = interviewHistory
            /\ interviewDone'
            /\ pc' = "awaitGenerate"
            /\ \E r \in inflight' \ inflight :
                 /\ inflight' = inflight \cup {r}
                 /\ r.kind = "generate"
                 /\ r.history = interviewHistory
                 /\ r.brief = brief
       /\ lastOp' = "restart" =>
            /\ brief' = brief
            /\ interviewHistory' = <<>>
            /\ interviewSummary' = NoSummary
            /\ ~interviewDone'
            /\ featureMessages' = <<>> /\ storyMessages' = <<>>
            /\ previewFeatures' = <<>> /\ previewStories' = <<>>
            /\ pc' = "awaitStep"
            /\ \E r \in inflight' \ inflight :
                 /\ inflight' = inflight \cup {r}
                 /\ r.kind = "interview"
                 /\ r.history = <<>>
                 /\ r.brief = brief]_vars

\* /finish was typed as the answer to the second question: one turn is
\* recorded and the final synthesis is asked for
C20_Witness ==
  /\ driver = "cli"
  /\ lastOp = "finish"
  /\ pc = "awaitGenerate"
  /\ Len(interviewHistory) = 1
  /\ currentQuestion # NoQuestion
  /\ previewFeatures # <<>>
  /\ \E r \in inflight : r.kind = "generate" /\ Len(r.history) = 1

\* C21: in a CLI run with --skip-preview no preview request is outstanding, the
\* run is never at the preview or at the feedback prompt, the feedback maps are
\* empty, and the text of the final synthesis has no Feedback block.
C21_SkipPreviewNoFeedback ==
  (driver = "cli" /\ skipPreview) =>
    /\ Pending("preview") = {}
    /\ pc \notin {"awaitPreview", "promptFeedback"}
    /\ featureMessages = <<>>
    /\ storyMessages = <<>>
    /\ previewFeatures = <<>> /\ previewStories = <<>>
    /\ \A r \in Pending("generate") :
         /\ r.feedback = <<>>
         /\ \A i \in 1..Len(SynthesisText(r)) :
              SynthesisText(r)[i].header # "Feedback"

\* a --skip-preview run has answered two questions and asked for the final
\* synthesis
C21_Witness ==
  /\ driver = "cli"
  /\ skipPreview
  /\ pc = "awaitGenerate"
  /\ Len(interviewHistory) = 2
  /\ \E r \in Pending("generate") : Len(SynthesisText(r)) >= 3

\* C22: applyFeatureOverrides on a feature list returns a list of the same
\* length; at an index that has an override the name and the summary are the
\* override's when non-empty and the userStoryIds the override's when its list
\* is non-empty, the original's otherwise; at an index without an override the
\* feature is returned as it is; overrides past the end of the list have no
\* effect.
C22_OverridesPositional ==
  (fnPc = "returned" /\ fnName = "applyFeatureOverrides"
     /\ fnArgs.features.isArray) =>
    LET features == fnArgs.features.items
        overrides == fnArgs.overrides
        merged == fnResult.items
    IN /\ fnResult.isArray
       /\ Len(merged) = Len(features)
       /\ \A i \in 1..Len(features) :
            IF i <= Len(overrides) /\ overrides[i].present
              THEN /\ merged[i].name = IF overrides[i].name # ""
                                         THEN overrides[i].name
                                         ELSE features[i].name
                   /\ merged[i].summary = IF overrides[i].summary # ""
                                            THEN overrides[i].summary
                                            ELSE features[i].summary
                   /\ merged[i].userStoryIds = IF overrides[i].userStoryIds # <<>>
                                                 THEN overrides[i].userStoryIds
                                                 ELSE features[i].userStoryIds
              ELSE merged[i] = features[i]

\* the spec's second example: overrides [undefined, {name}] on two features
C22_Witness ==
  /\ fnPc = "returned"
  /\ fnName = "applyFeatureOverrides"
  /\ Len(fnArgs.features.items) = 2
  /\ Len(fnArgs.overrides) = 3
  /\ ~fnArgs.overrides[1].present
  /\ fnArgs.overrides[2].name = "A2"
  /\ fnResult.items[1] = fnArgs.features.items[1]
  /\ fnResult.items[2].name = "A2"
  /\ fnResult.items[2].summary = fnArgs.features.items[2].summary

\* C23: buildPrdJson returns one entry per input story, in input order, with
\* the story's id, title and description; the priorities are 1..n by position
\* whatever the ids; every entry has passes = false and notes = ""; a missing or
\* empty acceptance-criteria list becomes ["TBD"] and any other list is kept.
C23_StoryExport ==
  (fnPc = "returned" /\ fnName = "buildPrdJson") =>
    LET stories == fnArgs.userStories.items
        exported == fnResult.userStories
    IN /\ Len(exported) = Len(stories)
       /\ \A i \in 1..Len(stories) :
            /\ exported[i].id = stories[i].id
            /\ exported[i].title = stories[i].title
            /\ exported[i].description = stories[i].description
            /\ exported[i].priority = i
            /\ exported[i].passes = FALSE
            /\ exported[i].notes = ""
            /\ exported[i].acceptanceCriteria =
                 IF stories[i].acceptanceCriteria \in {Undefined, Arr(<<>>)}
                   THEN <<"TBD">>
                   ELSE stories[i].acceptanceCriteria.items

\* three stories with a duplicate id and ids out of order
C23_Witness ==
  /\ fnPc = "returned"
  /\ fnName = "buildPrdJson"
  /\ Len(fnResult.userStories) = 3
  /\ fnResult.userStories[1].id = "US-002"
  /\ fnResult.userStories[2].id = "US-001"
  /\ fnResult.userStories[3].id = "US-002"
  /\ fnResult.userStories[3].priority = 3
  /\ fnResult.userStories[1].acceptanceCriteria = <<"TBD">>
  /\ fnArgs.userStories.items[1].acceptanceCriteria = Undefined

\* the "## ..." heading lines of the markdown
SectionHeadings ==
  {<<"## Introduction/Overview">>, <<"## Goals">>, <<"## User Stories">>,
   <<"## Functional Requirements">>, <<"## Non-Goals (Out of Scope)">>,
   <<"## Design Considerations (Optional)">>,
   <<"## Technical Considerations (Optional)">>, <<"## Success Metrics">>,
   <<"## Open Questions">>}

\* the lines of markdown md under heading: from the line after the heading to
\* the line before the blank line that ends the section
SectionBody(md, heading) ==
  LET h == CHOOSE i \in 1..Len(md) : md[i] = heading
      later == {i \in (h + 1)..Len(md) : md[i] \in SectionHeadings}
      next == IF later = {} THEN Len(md) + 1
              ELSE CHOOSE i \in later : \A j \in later : i <= j
  IN SubSeq(md, h + 1, next - 2)

\* item starts with FR-, one or more digits and a colon, as written
FrPrefixed(item) ==
  \E k \in 5..Len(item) :
    /\ SubSeq(item, 1, 3) = <<"F", "R", "-">>
    /\ \A d \in 4..(k - 1) : item[d] \in Digits
    /\ item[k] = ":"

\* the same with the letters F and R in either case
FrPrefixedAnyCase(item) ==
  \E k \in 5..Len(item) :
    /\ item[1] \in {"F", "f"} /\ item[2] \in {"R", "r"} /\ item[3] = "-"
    /\ \A d \in 4..(k - 1) : item[d] \in Digits
    /\ item[k] = ":"

FunctionalCall ==
  /\ fnPc = "returned"
  /\ fnName = "buildPrdMarkdown"
  /\ fnArgs.functionalRequirements.isArray
  /\ fnArgs.functionalRequirements.items # <<>>

\* C24 as stated: the Functional Requirements section has one bullet per item,
\* in input order; an item that starts with FR-<digits>: is emitted as it is and
\* every other item is prefixed FR-n: with n its 1-based position.
C24_FrNumbering ==
  FunctionalCall =>
    LET items == fnArgs.functionalRequirements.items
        body == SectionBody(fnResult, <<"## Functional Requirements">>)
    IN /\ Len(body) = Len(items)
       /\ \A n \in 1..Len(items) :
            body[n] = IF FrPrefixed(items[n])
                        THEN <<"- ">> \o items[n]
                        ELSE <<"- ", "FR-", ToString(n), ": ">> \o items[n]

\* C24 amended: as C24, with the prefix FR-<digits>: recognised whatever the
\* case of its letters (fr-9: is emitted as it is too).
C24_FrNumberingAnyCase ==
  FunctionalCall =>
    LET items == fnArgs.functionalRequirements.items
        body == SectionBody(fnResult, <<"## Functional Requirements">>)
    IN /\ Len(body) = Len(items)
       /\ \A n \in 1..Len(items) :
            body[n] = IF FrPrefixedAnyCase(items[n])
                        THEN <<"- ">> \o items[n]
                        ELSE <<"- ", "FR-", ToString(n), ": ">> \o items[n]

\* the spec's example: ["Support login", "FR-9: Legacy item"]
C24_Witness ==
  /\ FunctionalCall
  /\ fnArgs.functionalRequirements.items
       = << <<"x">>, <<"F", "R", "-", "9", ":", " ", "x">> >>
  /\ SectionBody(fnResult, <<"## Functional Requirements">>)
       = << <<"- ", "FR-", "1", ": ", "x">>,
            <<"- ", "F", "R", "-", "9", ":", " ", "x">> >>

\* the list sections of the markdown other than User Stories and Functional
\* Requirements: the field and its heading
ListSections ==
  { [field |-> "goals", heading |-> <<"## Goals">>],
    [field |-> "nonGoals", heading |-> <<"## Non-Goals (Out of Scope)">>],
    [field |-> "designConsiderations",
     heading |-> <<"## Design Considerations (Optional)">>],
    [field |-> "technicalConsiderations",
     heading |-> <<"## Technical Considerations (Optional)">>],
    [field |-> "successMetrics", heading |-> <<"## Success Metrics">>],
    [field |-> "openQuestions", heading |-> <<"## Open Questions">>] }

\* a list that is missing or empty
Blank(list) == ~list.isArray \/ list.items = <<>>

\* C25: in the markdown a missing or empty list section is the one bullet of
\* the item TBD ("- TBD"; numbered "- FR-1: TBD" under Functional
\* Requirements); missing or empty user stories give the body TBD and no story
\* heading; the JSON export of missing or empty user stories has no story.
C25_Placeholders ==
  /\ (fnPc = "returned" /\ fnName = "buildPrdMarkdown") =>
       /\ \A s \in ListSections :
            Blank(fnArgs[s.field]) =>
              SectionBody(fnResult, s.heading) = << <<"- ", "TBD">> >>
       /\ Blank(fnArgs.functionalRequirements) =>
            SectionBody(fnResult, <<"## Functional Requirements">>)
              = << <<"- ", "FR-", "1", ": ", "TBD">> >>
       /\ Blank(fnArgs.userStories) =>
            /\ SectionBody(fnResult, <<"## User Stories">>) = << <<"TBD">> >>
            /\ \A i \in 1..Len(fnResult) :
                 fnResult[i] # <<>> => fnResult[i][1] # "### "
       /\ Cardinality({i \in 1..Len(fnResult) :
                         fnResult[i] # <<>> /\ fnResult[i][1] = "### "})
            = IF Blank(fnArgs.userStories) THEN 0
              ELSE Len(fnArgs.userStories.items)
  /\ (fnPc = "returned" /\ fnName = "buildPrdJson") =>
       /\ Blank(fnArgs.userStories) => fnResult.userStories = <<>>
       /\ ~Blank(fnArgs.userStories) =>
            Len(fnResult.userStories) = Len(fnArgs.userStories.items)

\* every list of the markdown call is empty or missing
C25_Witness ==
  /\ fnPc = "returned"
  /\ fnName = "buildPrdMarkdown"
  /\ fnArgs.goals = Arr(<<>>)
  /\ fnArgs.nonGoals = Undefined
  /\ fnArgs.openQuestions = Arr(<<>>)
  /\ fnArgs.userStories = Arr(<<>>)
  /\ fnArgs.functionalRequirements = Undefined
  /\ SectionBody(fnResult, <<"## Goals">>) = << <<"- ", "TBD">> >>
  /\ SectionBody(fnResult, <<"## User Stories">>) = << <<"TBD">> >>

\* a slug: lowercase letters, digits and single hyphens, no hyphen at either end
WellFormedSlug(s) ==
  /\ \A i \in 1..Len(s) : s[i] \in {"a", "b", "7", "-"}
  /\ s # <<>> => s[1] # "-" /\ s[Len(s)] # "-"
  /\ \A i \in 1..(Len(s) - 1) : ~(s[i] = "-" /\ s[i + 1] = "-")

\* the directory the paths are under: --out without its trailing slash, or
\* the working directory
BaseDir(outputDir) ==
  IF outputDir = <<>> THEN Cwd
  ELSE IF outputDir[Len(outputDir)] = "/"
  THEN SubSeq(outputDir, 1, Len(outputDir) - 1)
  ELSE outputDir

\* C26: the slug of a feature name is made of lowercase letters, digits and
\* single hyphens, has no hyphen at either end, and is its own slug; the
\* markdown path is <dir>/tasks/prd-<slug>.md, the JSON path <dir>/prd.json
\* and the prompt path <dir>/prompt.md whatever the feature name.
C26_SlugAndPaths ==
  /\ (fnPc = "returned" /\ fnName = "kebabCase") =>
       /\ WellFormedSlug(fnResult)
       /\ kebabCase(fnResult) = fnResult
  /\ (fnPc = "returned" /\ fnName = "resolveOutputPaths") =>
       LET dir == BaseDir(fnArgs.outputDir)
           slug == kebabCase(fnArgs.featureName)
       IN /\ WellFormedSlug(slug)
          /\ fnResult.prdPath
               = dir \o <<"/", "tasks", "/", "prd-">> \o slug \o <<".md">>
          /\ fnResult.tasksDir = dir \o <<"/", "tasks">>
          /\ fnResult.prdJsonPath = dir \o <<"/", "prd.json">>
          /\ fnResult.promptPath = dir \o <<"/", "prompt.md">>

\* "b!A" under --out o
C26_Witness ==
  /\ fnPc = "returned"
  /\ fnName = "resolveOutputPaths"
  /\ fnArgs.featureName = <<"b", "!", "A">>
  /\ fnArgs.outputDir = <<"o">>
  /\ fnResult.prdPath = <<"o", "/", "tasks", "/", "prd-", "b", "-", "a", ".md">>
  /\ fnResult.prdJsonPath = <<"o", "/", "prd.json">>

\* the request a response step answers
Answered == inflight \ inflight'

\* C27: in the web client a successful preview response never sets the
\* preview after the response to a later preview request has set it.
C27_PreviewInIssueOrder ==
  [][lastOp' = "previewOk" => \A r \in Answered : r.id \notin overtakenIds]_vars

\* C28: in the web client the response to a request issued before the last
\* Restart leaves the question, the done flag, the summary and the preview
\* lists as they are.
C28_NoStaleResponseAfterRestart ==
  [][\A r \in Answered :
       r.id \in staleIds =>
         UNCHANGED <<currentQuestion, interviewDone, interviewSummary,
                     previewFeatures, previewStories>>]_vars

\* what Start, Send Answer, Finish, Restart and Generate leave in lastOp
InterviewButtonOps ==
  {"start", "startRejected", "sendAnswer", "sendAnswerRejected",
   "sendAnswerNoQuestion", "finish", "restart", "generate"}

\* C29: in the web client at most one interview-step request is in flight,
\* loadingInterview is true exactly while one is, and while it is true no
\* Start, Send Answer, Finish, Restart or Generate takes place.
C29_OneInterviewRequest ==
  /\ [](driver = "web" =>
          /\ Cardinality(Pending("interview")) <= 1
          /\ loadingInterview <=> Pending("interview") # {})
  /\ [][(driver = "web" /\ loadingInterview) => lastOp' \notin InterviewButtonOps]_vars

\* an answer's interview step is in flight, with its preview refresh
C29_Witness ==
  /\ driver = "web"
  /\ lastOp = "sendAnswer"
  /\ loadingInterview
  /\ Cardinality(Pending("interview")) = 1
  /\ Pending("preview") # {}

\* the key of every message of a map, in the map's order
AllKeys(map) ==
  Flatten([i \in 1..Len(map) |-> [j \in 1..Len(map[i].msgs) |-> map[i].key]])

\* the label of feature index idx under the preview now displayed
CurrentFeatureLabel(idx) ==
  IF idx + 1 \in 1..Len(previewFeatures) /\ previewFeatures[idx + 1].name # ""
    THEN <<"Feature \"", previewFeatures[idx + 1].name, "\"">>
    ELSE <<"Feature ", ToString(idx + 1)>>

\* the label of story id under the preview now displayed
CurrentStoryLabel(id) ==
  LET at == {i \in 1..Len(previewStories) : previewStories[i].id = id}
  IN IF at = {} THEN <<"Story ", id>>
     ELSE LET last == CHOOSE i \in at : \A j \in at : j <= i
          IN <<"Story ", id, ": ", previewStories[last].title>>

\* C30: the feedback list of every preview or final synthesis request labels
\* each feature message by the feature at its index in the preview displayed
\* when the request is issued ('Feature <index+1>' when that feature has no name
\* or does not exist) and each story message by the title of the story that
\* carries its id in that preview (the bare id when none does).
C30_LabelsFromCurrentPreview ==
  [][\A r \in inflight' \ inflight :
       r.kind \in {"preview", "generate"} =>
         LET fk == AllKeys(featureMessages')
             sk == AllKeys(storyMessages')
         IN /\ Len(r.feedback) = Len(fk) + Len(sk)
            /\ \A i \in 1..Len(fk) :
                 r.feedback[i].label = CurrentFeatureLabel(fk[i])
            /\ \A i \in 1..Len(sk) :
                 r.feedback[Len(fk) + i].label = CurrentStoryLabel(sk[i])]_vars

\* a message recorded for the second feature is labelled 'Feature 2' by a
\* request issued when the preview has one feature only
C30_Witness ==
  /\ Len(previewFeatures) = 1
  /\ \E r \in inflight :
       /\ r.feedback # <<>>
       /\ r.feedback[1].label = <<"Feature ", "2">>
       /\ \A q \in inflight : q.id <= r.id

====
